---- MODULE Spec2Model ----
(***************************************************************************)
(* A model of logmiao's record pipeline: the SmartFilterHandler (level     *)
(* gate, static patterns, health-check paths, time-windowed duplicate      *)
(* suppression with its errorTracker map and errorMutex), the             *)
(* MultiHandler fan-out dispatcher, the ColorHandler and its lock, and the *)
(* gin request middleware.                                                 *)
(*                                                                         *)
(* Messages are sequences of tokens; a regular expression or a substring   *)
(* test of the source is computed on the tokens.  Time is counted in       *)
(* minutes, the unit of errorWindow.                                       *)
(***************************************************************************)
EXTENDS Integers, Sequences, FiniteSets, TLC

VARIABLES
    clock,          \* time.Now(), in minutes
    filters,        \* the SmartFilterHandler values created so far
    trackers,       \* the heap of errorTracker maps (a map is a reference)
    last,           \* history: the Handle/Log call that has just returned, if any
    accepted,       \* history: per message, its last accepted emission
    thr,            \* per goroutine: its position inside Handle
    fatal,          \* the runtime aborted the process (concurrent map access)
    members,        \* MultiHandler.handlers
    defaultIsMulti, \* slog.Default() is the logger built over the MultiHandler
    broken,         \* members whose writer fails on every write
    stack,          \* the call stack of MultiHandler.Handle frames
    delivered,      \* history: per member, Handle calls of the current dispatch
    ret,            \* what the outermost MultiHandler.Handle returned
    crashed,        \* the goroutine stack overflowed
    scoped,         \* the MultiHandler values WithAttrs/WithGroup returned
    cmu,            \* ColorHandler.mu: the goroutine that holds it, 0 if none
    cthr,           \* per goroutine: its position inside a ColorHandler method
    mode,           \* ColorHandler.compactMode and ColorHandler.enableHighlight
    sink,           \* history: the record being written to ColorHandler.w
    mw,             \* the request the gin middleware is serving, and its records
    chain,          \* the request passing RequestID, GinMiddleware and Recovery
    boot,           \* the process around logger.Init / InitWithConfig
    call,           \* history: the last call of a function of package utils
    gated,          \* history: the messages rejected before the duplicate test
    render          \* a ColorHandler, the loggers scoped on it, its last output

filterVars == <<clock, filters, trackers, last, accepted>>
concVars   == <<thr, fatal>>
multiVars  == <<members, defaultIsMulti, broken, stack, delivered, ret, crashed, scoped>>
vars       == <<clock, filters, trackers, last, accepted, thr, fatal,
                members, defaultIsMulti, broken, stack, delivered, ret, crashed, scoped,
                cmu, cthr, mode, sink, mw, chain, boot, call, gated, render>>
colorVars  == <<cmu, cthr, mode, sink>>
utilVars   == <<chain, boot, call, gated, render>>
otherVars  == <<cmu, cthr, mode, sink, mw, chain, boot, call, gated, render>>

----------------------------------------------------------------------------
(* Bounds of the model. *)

MaxClock   == 6     \* the clock runs from 0 to MaxClock minutes
MaxDerived == 1     \* WithAttrs/WithGroup results kept beside the original
MaxThreads == 2     \* goroutines emitting concurrently
MaxDepth   == 3     \* MultiHandler.Handle frames before the stack limit
MaxLocal   == 6     \* user names of e-mail addresses have up to MaxLocal characters
MaxPhone   == 14    \* phone numbers have up to MaxPhone characters
MaxSlack   == 2     \* texts to sanitize are up to MaxSlack off the limit
MaxWords   == 2     \* a message to highlight has up to MaxWords words
MaxMembers == 2     \* members of a MultiHandler

(* Program constants. *)

LevelDebug == -4
LevelInfo  == 0
LevelWarn  == 4
LevelError == 8
ErrorWindow == 5    \* errorWindow: 5 * time.Minute

Levels == {LevelDebug, LevelInfo, LevelWarn, LevelError}

----------------------------------------------------------------------------
(* Messages and the patterns of NewSmartFilterHandler. *)

\* strings.ToLower, on one token
ToLowerTok(tok) ==
    CASE tok = "Connection Reset By Peer" -> "connection reset by peer"
      [] tok = "Broken Pipe"              -> "broken pipe"
      [] tok = "READ:"                    -> "read:"
      [] OTHER                            -> tok

ToLower(msg) == [i \in DOMAIN msg |-> ToLowerTok(msg[i])]

\* strings.Contains / an unanchored literal in a regular expression
Contains(msg, tok) == \E i \in DOMAIN msg : msg[i] = tok

\* a.*b
ContainsThen(msg, a, b) ==
    \E i \in DOMAIN msg : \E j \in DOMAIN msg : i < j /\ msg[i] = a /\ msg[j] = b

\* `^\[GIN-debug\]|\[GIN\]`
ginDebugRegex(msg) ==
    \/ (Len(msg) > 0 /\ msg[1] = "[GIN-debug]")
    \/ Contains(msg, "[GIN]")

\* `could not unmarshal event.*CookiePartitionKey`
cookiePartitionRegex(msg) ==
    ContainsThen(msg, "could not unmarshal event", "CookiePartitionKey")

\* `chromedp: could not retrieve|context deadline exceeded.*chromedp`
chromedpInternalRegex(msg) ==
    \/ Contains(msg, "chromedp: could not retrieve")
    \/ ContainsThen(msg, "context deadline exceeded", "chromedp")
    \/ ContainsThen(msg, "context deadline exceeded", "chromedp: could not retrieve")

\* the tokens in which `/health|/ping|/status|/metrics` finds a match
HealthTokens == {"/health", "/ping", "/status", "/metrics", "/api/v1/status"}

healthCheckRegex(msg) == \E i \in DOMAIN msg : msg[i] \in HealthTokens

\* a bug to compare with: no message counts as blank
NeverBlank_IsBlank(msg) == FALSE

\* strings.TrimSpace(msg) == ""
WhiteTokens == {" ", "\t"}
IsBlank(msg) == \A i \in DOMAIN msg : msg[i] \in WhiteTokens

contextErrors ==
    <<"context canceled", "context deadline exceeded",
      "connection reset by peer", "broken pipe">>

\* the classification made by isDuplicateContextError before the window test
IsContextError(msg) ==
    \E k \in DOMAIN contextErrors : Contains(ToLower(msg), contextErrors[k])

----------------------------------------------------------------------------
(* The errorTracker map. *)

Entry(tr, msg) == IF msg \in DOMAIN tr THEN tr[msg] ELSE -1

EmptyMap == [m \in {} |-> 0]

\* a bug to compare with: nothing is deleted
Keeping_Purge(tr, now, window) == tr

\* for key, timestamp := range h.errorTracker { if now.Sub(timestamp) > h.errorWindow { delete } }
Purge(tr, now, window) ==
    [m \in {k \in DOMAIN tr : ~(now - tr[k] > window)} |-> tr[m]]

\* if lastTime, exists := h.errorTracker[msg]; exists { if now.Sub(lastTime) < h.errorWindow {
Inverted_Lookup(tr, msg, now, window) ==
    msg \in DOMAIN tr /\ now - tr[msg] > window

\* a bug to compare with: an entry exactly the window old still rejects
Inclusive_Lookup(tr, msg, now, window) ==
    msg \in DOMAIN tr /\ now - tr[msg] <= window

Lookup(tr, msg, now, window) ==
    msg \in DOMAIN tr /\ now - tr[msg] < window

\* h.errorTracker[msg] = now
Insert(tr, msg, now) ==
    [m \in DOMAIN tr \cup {msg} |-> IF m = msg THEN now ELSE tr[m]]

\* the critical section of shouldFilterDuplicateError
Refreshing_shouldFilterDuplicateError(tr, msg, now, window) ==
    LET purged == Purge(tr, now, window) IN
    IF Lookup(purged, msg, now, window)
    THEN [filter |-> TRUE,  tracker |-> Insert(purged, msg, now)]
    ELSE [filter |-> FALSE, tracker |-> Insert(purged, msg, now)]

shouldFilterDuplicateError(tr, msg, now, window) ==
    LET purged == Purge(tr, now, window) IN
    IF Lookup(purged, msg, now, window)
    THEN [filter |-> TRUE,  tracker |-> purged]
    ELSE [filter |-> FALSE, tracker |-> Insert(purged, msg, now)]

\* a bug to compare with: the map is keyed by the lower-cased message
Normalized_isDuplicateContextError(tr, msg, now, window) ==
    IF IsContextError(msg)
    THEN shouldFilterDuplicateError(tr, ToLower(msg), now, window)
    ELSE [filter |-> FALSE, tracker |-> tr]

isDuplicateContextError(tr, msg, now, window) ==
    IF IsContextError(msg)
    THEN shouldFilterDuplicateError(tr, msg, now, window)
    ELSE [filter |-> FALSE, tracker |-> tr]

----------------------------------------------------------------------------
(* The wrapped handler: a ColorHandler, or slog's text handler. *)

\* ColorHandler.Enabled / slog's handlers: level >= opts.Level
WrappedEnabled(w, level) == level >= w.minLevel

\* ColorHandler.WithAttrs returns h itself; slog's handlers return a bound copy
WrappedWithAttrs(w) ==
    IF w.kind = "color" THEN w ELSE [w EXCEPT !.bound = @ + 1]

\* ColorHandler.WithGroup returns h itself; slog's handlers open the group
WrappedWithGroup(w) ==
    IF w.kind = "color" THEN w ELSE [w EXCEPT !.groups = @ + 1]

\* ColorHandler.Handle returns nil whatever the writer does; slog's text
\* handler returns the writer's error
WrappedHandleErr(w, writeFails) == w.kind # "color" /\ writeFails

----------------------------------------------------------------------------
(* SmartFilterHandler. *)

NewSmartFilterHandler(w, config) ==
    [handler           |-> w,
     ignoreGinDebug    |-> config.IgnoreGinDebug,
     ignoreHealthCheck |-> config.IgnoreHealthCheck,
     minLevel          |-> config.MinLevel,
     errorTracker      |-> 1,
     errorMutex        |-> "unlocked",
     errorWindow       |-> ErrorWindow]

NoWrappedCheck_Enabled(h, level) == level >= h.minLevel

Enabled(h, level) == level >= h.minLevel /\ WrappedEnabled(h.handler, level)

\* 1. if r.Level < h.minLevel
NoGate_LevelGate(h, r) == FALSE

LevelGate(h, r) == r.level < h.minLevel

\* 2. if h.ignoreGinDebug && h.ginDebugRegex.MatchString(msg)
GinDebugRule(h, r) == h.ignoreGinDebug /\ ginDebugRegex(r.msg)

\* 3., 4. the cookiePartition and chromedp patterns
BelowError_InternalRule(h, r) ==
    r.level < LevelError /\ (cookiePartitionRegex(r.msg) \/ chromedpInternalRegex(r.msg))

InternalRule(h, r) == cookiePartitionRegex(r.msg) \/ chromedpInternalRegex(r.msg)

\* a bug to compare with: only the message is looked at
MessageOnly_shouldIgnoreHealthCheck(r) == healthCheckRegex(r.msg)

shouldIgnoreHealthCheck(r) ==
    \/ healthCheckRegex(r.msg)
    \/ \E i \in DOMAIN r.attrs :
          /\ r.attrs[i].key \in {"path", "url"}
          /\ healthCheckRegex(<<r.attrs[i].val>>)

\* 5. if h.ignoreHealthCheck && h.shouldIgnoreHealthCheck(r)
HealthRule(h, r) == h.ignoreHealthCheck /\ shouldIgnoreHealthCheck(r)

\* the return statement among rules 1 to 5 that the call leaves by, if any
EarlyReject(h, r) ==
    IF LevelGate(h, r) THEN "level"
    ELSE IF GinDebugRule(h, r) THEN "gin"
    ELSE IF InternalRule(h, r) THEN "internal"
    ELSE IF HealthRule(h, r) THEN "health"
    ELSE "none"

\* 7. the blank-message rule, then h.handler.Handle(ctx, r)
AfterDedup(h, r, writeFails) ==
    IF IsBlank(r.msg) THEN [outcome |-> "blank", err |-> FALSE]
    ELSE [outcome |-> "forwarded", err |-> WrappedHandleErr(h.handler, writeFails)]

\* a bug to compare with: the duplicate test runs before rules 1 to 5
DedupFirst_HandleResult(h, r, now, tr, writeFails) ==
    LET d == isDuplicateContextError(tr, r.msg, now, h.errorWindow) IN
    IF EarlyReject(h, r) # "none"
    THEN [outcome |-> EarlyReject(h, r), tracker |-> d.tracker, err |-> FALSE]
    ELSE IF d.filter THEN [outcome |-> "duplicate", tracker |-> d.tracker, err |-> FALSE]
         ELSE [outcome |-> AfterDedup(h, r, writeFails).outcome, tracker |-> d.tracker,
               err |-> AfterDedup(h, r, writeFails).err]

\* Handle: which return statement the call leaves by, the map it leaves
\* behind and the error it returns
HandleResult(h, r, now, tr, writeFails) ==
    IF EarlyReject(h, r) # "none"
    THEN [outcome |-> EarlyReject(h, r), tracker |-> tr, err |-> FALSE]
    ELSE LET d == isDuplicateContextError(tr, r.msg, now, h.errorWindow) IN
         IF d.filter THEN [outcome |-> "duplicate", tracker |-> d.tracker, err |-> FALSE]
         ELSE [outcome |-> AfterDedup(h, r, writeFails).outcome, tracker |-> d.tracker,
               err |-> AfterDedup(h, r, writeFails).err]

\* WithAttrs / WithGroup: a new handler value over the wrapped handler's result
FreshMap_Derive(h, w, mutexCopy, nTrackers) ==
    [h EXCEPT !.handler = w,
              !.errorTracker = nTrackers + 1,
              !.errorMutex = mutexCopy]

Derive(h, w, mutexCopy, nTrackers) ==
    [h EXCEPT !.handler = w,
              !.errorMutex = mutexCopy]

\* the maps on the heap after WithAttrs / WithGroup
HeapAfterDerive(new) ==
    IF new.errorTracker > Len(trackers) THEN Append(trackers, EmptyMap) ELSE trackers

----------------------------------------------------------------------------
(* History variables. *)

\* no call has just returned
NoCall ==
    [h |-> 0, via |-> "none", level |-> LevelInfo, msg |-> <<>>, attrs |-> <<>>,
     at |-> 0, outcome |-> "none", err |-> FALSE,
     prev |-> -1, prevAcc |-> -1, prevBy |-> 0, prevRej |-> FALSE]

AccAt(msg)  == IF msg \in DOMAIN accepted THEN accepted[msg].at ELSE -1
AccBy(msg)  == IF msg \in DOMAIN accepted THEN accepted[msg].by ELSE 0
AccRej(msg) == IF msg \in DOMAIN accepted THEN accepted[msg].rej ELSE FALSE

\* the outcomes of a call that left before the duplicate test
EarlyOutcomes == {"disabled", "level", "gin", "internal", "health"}

\* per context-error message: when and through which handler it was last
\* forwarded, and whether a duplicate of it has been rejected since
AcceptedAfter(i, r, res) ==
    IF ~IsContextError(r.msg) THEN accepted
    ELSE IF res.outcome = "forwarded"
    THEN [m \in DOMAIN accepted \cup {r.msg} |->
            IF m = r.msg THEN [at |-> clock, by |-> i, rej |-> FALSE] ELSE accepted[m]]
    ELSE IF res.outcome = "duplicate" /\ r.msg \in DOMAIN accepted
    THEN [accepted EXCEPT ![r.msg].rej = TRUE]
    ELSE accepted

\* the call that has just returned, with what held when it was made
LastAfter(i, r, via, res) ==
    [h |-> i, via |-> via, level |-> r.level, msg |-> r.msg, attrs |-> r.attrs,
     at |-> clock, outcome |-> res.outcome, err |-> res.err,
     prev |-> Entry(trackers[filters[i].errorTracker], r.msg),
     prevAcc |-> AccAt(r.msg), prevBy |-> AccBy(r.msg), prevRej |-> AccRej(r.msg)]

----------------------------------------------------------------------------
(* The operations of a filter, each as one step. *)

\* handler.Handle(ctx, r), called directly on filters[i]
Handle(i, r, writeFails) ==
    /\ last = NoCall
    /\ i \in DOMAIN filters
    /\ filters[i].errorMutex = "unlocked"
    /\ LET h   == filters[i]
           res == HandleResult(h, r, clock, trackers[h.errorTracker], writeFails)
       IN /\ trackers' = [trackers EXCEPT ![h.errorTracker] = res.tracker]
          /\ last' = LastAfter(i, r, "direct", res)
          /\ accepted' = AcceptedAfter(i, r, res)
    /\ UNCHANGED <<clock, filters>>
    /\ UNCHANGED concVars /\ UNCHANGED multiVars /\ UNCHANGED otherVars

\* a record emitted through slog.Logger: Enabled first, Handle only if it holds
Log(i, r, writeFails) ==
    /\ last = NoCall
    /\ i \in DOMAIN filters
    /\ filters[i].errorMutex = "unlocked"
    /\ LET h   == filters[i]
           res == IF Enabled(h, r.level)
                  THEN HandleResult(h, r, clock, trackers[h.errorTracker], writeFails)
                  ELSE [outcome |-> "disabled", tracker |-> trackers[h.errorTracker],
                        err |-> FALSE]
       IN /\ trackers' = [trackers EXCEPT ![h.errorTracker] = res.tracker]
          /\ last' = LastAfter(i, r, "logger", res)
          /\ accepted' = AcceptedAfter(i, r, res)
    /\ UNCHANGED <<clock, filters>>
    /\ UNCHANGED concVars /\ UNCHANGED multiVars /\ UNCHANGED otherVars

\* the copy of h.errorMutex made by the struct literal of WithAttrs/WithGroup:
\* the copy is unsynchronised, so of a mutex held at that moment it may read
\* the state before or after the holder's Lock
MutexCopies(m) == IF m = "locked" THEN {"locked", "unlocked"} ELSE {"unlocked"}

WithAttrs(i) ==
    /\ last = NoCall
    /\ i \in DOMAIN filters
    /\ Len(filters) < 1 + MaxDerived
    /\ \E c \in MutexCopies(filters[i].errorMutex) :
          LET new == Derive(filters[i], WrappedWithAttrs(filters[i].handler),
                            c, Len(trackers)) IN
          /\ filters' = Append(filters, new)
          /\ trackers' = HeapAfterDerive(new)
    /\ UNCHANGED <<clock, last, accepted>>
    /\ UNCHANGED concVars /\ UNCHANGED multiVars /\ UNCHANGED otherVars

WithGroup(i) ==
    /\ last = NoCall
    /\ i \in DOMAIN filters
    /\ Len(filters) < 1 + MaxDerived
    /\ \E c \in MutexCopies(filters[i].errorMutex) :
          LET new == Derive(filters[i], WrappedWithGroup(filters[i].handler),
                            c, Len(trackers)) IN
          /\ filters' = Append(filters, new)
          /\ trackers' = HeapAfterDerive(new)
    /\ UNCHANGED <<clock, last, accepted>>
    /\ UNCHANGED concVars /\ UNCHANGED multiVars /\ UNCHANGED otherVars

\* the wall clock advances by d minutes
Tick(d) ==
    /\ last = NoCall
    /\ clock + d <= MaxClock
    /\ clock' = clock + d
    /\ UNCHANGED <<filters, trackers, last, accepted>>
    /\ UNCHANGED concVars /\ UNCHANGED multiVars /\ UNCHANGED otherVars

\* the caller goes on after the call: the history of the call is dropped
Return ==
    /\ last # NoCall
    /\ last' = NoCall
    /\ UNCHANGED <<clock, filters, trackers, accepted>>
    /\ UNCHANGED concVars /\ UNCHANGED multiVars /\ UNCHANGED otherVars

----------------------------------------------------------------------------
(* Initial states. *)

Threads == 1 .. MaxThreads

IdleThread ==
    [pc |-> "idle", h |-> 0, msg |-> <<>>, now |-> 0, outcome |-> "none",
     fresh0 |-> FALSE, late |-> FALSE, accDuring |-> FALSE, ov |-> {}]

IdleConc  == thr = [t \in Threads |-> IdleThread] /\ fatal = FALSE

\* what is remembered of the last record given to the dispatcher: the
\* record, the members whose Handle was invoked with it, those that failed
NoDelivery ==
    [rec |-> [level |-> LevelInfo, msg |-> <<>>, attrs |-> <<>>], to |-> {}, failed |-> {},
     calls |-> <<>>]

IdleMulti ==
    /\ members = <<>> /\ defaultIsMulti = FALSE /\ broken = {}
    /\ stack = <<>> /\ delivered = NoDelivery /\ ret = "none" /\ crashed = FALSE
    /\ scoped = <<>>

\* no goroutine is inside the ColorHandler
IdleWriter ==
    [pc |-> "idle", op |-> "none", todo |-> <<>>, arg |-> FALSE, compact |-> FALSE,
     highlight |-> FALSE, failed |-> FALSE, result |-> "none"]

IdleColor ==
    /\ cmu = 0
    /\ cthr = [t \in Threads |-> IdleWriter]
    /\ mode = [compact |-> FALSE, highlight |-> TRUE]
    /\ sink = [owner |-> 0, mixed |-> FALSE, torn |-> FALSE]

\* the middleware serves no request
NoRequest ==
    [pc |-> "idle", method |-> "", path |-> <<>>, status |-> 0, served |-> FALSE,
     panicked |-> FALSE, out |-> <<>>, skipPaths |-> <<>>]

IdleMw == mw = NoRequest

\* no request is in the middleware chain
NoChain == [pc |-> "idle"]

\* logger.Init has not been called
NoBoot == [pc |-> "idle"]

\* no function of package utils has been called
NoCall_utils == [fn |-> "none"]

\* NewColorHandler: highlighting on, compact mode off
NewColorHandler == [compactMode |-> FALSE, enableHighlight |-> TRUE]

\* one ColorHandler, the logger made over it, nothing rendered yet
NoRender ==
    [heap |-> <<NewColorHandler>>, loggers |-> <<[h |-> 1, bound |-> {}]>>,
     op |-> "none", before |-> NewColorHandler, via |-> 0,
     rec |-> [level |-> LevelInfo, msg |-> <<>>, attrs |-> <<>>], gap |-> FALSE,
     out |-> <<>>]

IdleUtil ==
    /\ chain = NoChain /\ boot = NoBoot /\ call = NoCall_utils
    /\ gated = {} /\ render = NoRender

IdleOther == IdleColor /\ IdleMw /\ IdleUtil

Wrapped(kind, level) == [kind |-> kind, minLevel |-> level, bound |-> 0, groups |-> 0]

\* the filter createLogger builds around the console handler
PipelineFilter(kind, level) ==
    NewSmartFilterHandler(Wrapped(kind, level),
        [IgnoreGinDebug |-> TRUE, IgnoreHealthCheck |-> TRUE, MinLevel |-> level])

InitFilter(f) ==
    /\ clock = 0
    /\ filters = <<f>>
    /\ trackers = <<EmptyMap>>
    /\ last = NoCall
    /\ accepted = EmptyMap

----------------------------------------------------------------------------
(* Spec: one filter as createLogger builds it, its derived handlers, the   *)
(* clock, and records emitted one call at a time.                          *)

DedupMsgs ==
    {<<"connection reset by peer">>,
     <<"Connection Reset By Peer">>,
     <<"context deadline exceeded", "chromedp">>,
     <<"request", "completed">>}

DedupRecords ==
    [level : {LevelError}, msg : DedupMsgs, attrs : {<<>>}]

Init ==
    /\ InitFilter(PipelineFilter("color", LevelInfo))
    /\ IdleConc /\ IdleMulti /\ IdleOther

Next ==
    \/ \E i \in 1 .. (1 + MaxDerived), r \in DedupRecords : Handle(i, r, FALSE)
    \/ \E i \in 1 .. (1 + MaxDerived) : WithAttrs(i)
    \/ \E i \in 1 .. (1 + MaxDerived) : WithGroup(i)
    \/ Tick(1)
    \/ Return

Spec == Init /\ [][Next]_vars

----------------------------------------------------------------------------
(* SpecRules: one filter of any configuration, at a fixed instant, and     *)
(* records of every level, message class and attribute list, handed to     *)
(* Handle directly or emitted through a logger.                            *)

RuleMsgs ==
    {<<"[GIN-debug]", "Listening">>,
     <<"could not unmarshal event", "CookiePartitionKey">>,
     <<"chromedp: could not retrieve">>,
     <<"context deadline exceeded", "chromedp">>,
     <<"GET", "/health">>,
     <<"broken pipe", "/metrics">>,
     <<"connection reset by peer">>,
     <<"request", "completed">>,
     <<>>,
     <<" ", "\t">>}

RuleAttrs ==
    {<<>>,
     <<[key |-> "path", val |-> "/api/users"]>>,
     <<[key |-> "note", val |-> "/health"]>>,
     <<[key |-> "path", val |-> "/metrics"]>>,
     <<[key |-> "path", val |-> "/api/users"], [key |-> "url", val |-> "/api/v1/status"]>>}

RuleRecords == [level : Levels, msg : RuleMsgs, attrs : RuleAttrs]

InitRules ==
    /\ \E kind \in {"color", "text"}, wl \in {LevelInfo, LevelWarn},
          gin \in BOOLEAN, health \in BOOLEAN, ml \in {LevelDebug, LevelInfo, LevelWarn} :
          InitFilter(NewSmartFilterHandler(Wrapped(kind, wl),
              [IgnoreGinDebug |-> gin, IgnoreHealthCheck |-> health, MinLevel |-> ml]))
    /\ IdleConc /\ IdleMulti /\ IdleOther

NextRules ==
    \/ \E r \in RuleRecords, wf \in BOOLEAN : Handle(1, r, wf)
    \/ \E r \in RuleRecords, wf \in BOOLEAN : Log(1, r, wf)
    \/ Return

SpecRules == InitRules /\ [][NextRules]_vars

----------------------------------------------------------------------------
(* Properties of the filter. *)

Called == last.via # "none"

LastRecord == [level |-> last.level, msg |-> last.msg, attrs |-> last.attrs]

\* the call that has just returned was made on the handler with a record
\* that none of the rules 1 to 5 of Handle rejects
PassedRules ==
    /\ Called
    /\ last.outcome # "disabled"
    /\ LET h == filters[last.h] IN
       /\ last.level >= h.minLevel
       /\ ~(h.ignoreGinDebug /\ ginDebugRegex(last.msg))
       /\ ~cookiePartitionRegex(last.msg)
       /\ ~chromedpInternalRegex(last.msg)
       /\ ~(h.ignoreHealthCheck /\ shouldIgnoreHealthCheck(LastRecord))

\* C1: a context-error message emitted while the map holds no entry for it is
\* forwarded; emitted again less than the window after its last forwarded
\* emission it is rejected as a duplicate; emitted more than the window after
\* it, it is forwarded again.
C1_DedupWindow ==
    (PassedRules /\ IsContextError(last.msg)) =>
        /\ (last.prev = -1 => last.outcome = "forwarded")
        /\ (last.prevAcc >= 0 /\ last.at - last.prevAcc < ErrorWindow
                => last.outcome = "duplicate")
        /\ (last.prevAcc >= 0 /\ last.at - last.prevAcc > ErrorWindow
                => last.outcome = "forwarded")

\* accepted, rejected inside the window, accepted again after it
C1_Witness ==
    /\ PassedRules /\ IsContextError(last.msg)
    /\ last.outcome = "forwarded"
    /\ last.prevAcc >= 0 /\ last.at - last.prevAcc > ErrorWindow
    /\ last.prevRej

\* C2: a rejected duplicate leaves the stored timestamp at the time of the
\* accepted emission, so an emission later than that time plus the window is
\* forwarded however many duplicates were rejected before it, and two
\* forwarded emissions of one message are at least the window apart.
C2_NoRefreshOnReject ==
    /\ (Called /\ last.outcome = "duplicate") =>
          /\ Entry(trackers[filters[last.h].errorTracker], last.msg) = last.prev
          /\ last.prev = last.prevAcc
    /\ (PassedRules /\ IsContextError(last.msg) /\ last.prevRej
            /\ last.at - last.prevAcc > ErrorWindow)
          => last.outcome = "forwarded"
    /\ (Called /\ IsContextError(last.msg) /\ last.outcome = "forwarded"
            /\ last.prevAcc >= 0)
          => last.at - last.prevAcc >= ErrorWindow

\* a second rejection inside one window, the entry still at the accepted time
C2_Witness ==
    /\ Called /\ last.outcome = "duplicate" /\ last.prevRej
    /\ last.at > last.prevAcc
    /\ Entry(trackers[filters[last.h].errorTracker], last.msg) = last.prevAcc

\* C3: a record below the filter's minimum level is never passed to the
\* wrapped handler and the call returns no error, whatever its message and
\* attributes.
C3_LevelGate ==
    (Called /\ last.level < filters[last.h].minLevel) =>
        /\ last.outcome \in {"level", "disabled"}
        /\ ~last.err

\* a record only the level gate stops, handed to Handle directly
C3_Witness ==
    /\ last.via = "direct" /\ last.outcome = "level"
    /\ last.msg = <<"request", "completed">> /\ last.attrs = <<>>
    /\ WrappedEnabled(filters[last.h].handler, last.level)
    /\ last.level < filters[last.h].minLevel

StaticMatch(msg) ==
    ginDebugRegex(msg) \/ cookiePartitionRegex(msg) \/ chromedpInternalRegex(msg)

\* C4 as stated: a message matching a static suppression pattern is rejected
\* at every level, for every configuration of the filter.
C4_Original ==
    (Called /\ StaticMatch(last.msg)) => last.outcome # "forwarded"

\* C4 as amended: a message matching the CookiePartitionKey or the chromedp
\* pattern is rejected at every level for every configuration; a message
\* matching the framework debug pattern is rejected at every level when
\* ignoreGinDebug is set.
C4_StaticPatterns ==
    (Called /\ ( \/ cookiePartitionRegex(last.msg)
                 \/ chromedpInternalRegex(last.msg)
                 \/ (filters[last.h].ignoreGinDebug /\ ginDebugRegex(last.msg)) ))
        => last.outcome \in {"level", "disabled", "gin", "internal"}

\* an error-level record rejected by a static pattern
C4_Witness ==
    /\ Called /\ last.level = LevelError
    /\ last.outcome = "internal"
    /\ cookiePartitionRegex(last.msg)

\* C5 as stated: Handle never calls the wrapped handler's Handle for a level
\* the wrapped handler has disabled.
C5_Original ==
    (Called /\ last.outcome = "forwarded")
        => WrappedEnabled(filters[last.h].handler, last.level)

\* C5 as amended: the filter's Enabled holds only for levels the wrapped
\* handler has enabled, so a record emitted through a caller that asks
\* Enabled first reaches the wrapped handler only at a level it has enabled;
\* Handle itself does not ask.
C5_ForwardedOnlyIfEnabled ==
    (last.via = "logger" /\ last.outcome = "forwarded")
        => WrappedEnabled(filters[last.h].handler, last.level)

\* a record at or above the filter's minimum that the wrapped handler's
\* level keeps away, and one that it lets through
C5_Witness ==
    /\ last.via = "logger"
    /\ last.outcome = "forwarded"
    /\ filters[last.h].handler.minLevel > filters[last.h].minLevel

\* C6: the derived handlers see the map of the original: a context-error
\* message forwarded through one handler of the family is, inside the window,
\* present in the map of every handler of the family and rejected through
\* every other handler; WithAttrs and WithGroup never empty the map.
C6_SharedDedup ==
    /\ \A i \in DOMAIN filters : \A m \in DOMAIN accepted :
          clock - accepted[m].at < ErrorWindow
              => Entry(trackers[filters[i].errorTracker], m) = accepted[m].at
    /\ (PassedRules /\ IsContextError(last.msg) /\ last.prevAcc >= 0
            /\ last.prevBy # last.h /\ last.at - last.prevAcc < ErrorWindow)
          => last.outcome = "duplicate"

\* forwarded through a derived handler, rejected through the original
C6_Witness ==
    /\ Called /\ last.outcome = "duplicate"
    /\ last.h = 1 /\ last.prevBy > 1

----------------------------------------------------------------------------
(* SpecConc: goroutines inside Handle at the same time.  A goroutine reads *)
(* the clock, takes h.errorMutex, purges, looks up, inserts and releases,  *)
(* each as a step of its own; WithAttrs and WithGroup run beside them.     *)

InSection == {"purge", "lookup", "insert", "unlock"}
Undecided == {"lock", "purge", "lookup", "insert"}

TrackerOf(t) == filters[thr[t].h].errorTracker

ErrRecord(msg) == [level |-> LevelError, msg |-> msg, attrs |-> <<>>]

ConcFrame ==
    /\ UNCHANGED <<clock, last, accepted>>
    /\ UNCHANGED multiVars
    /\ UNCHANGED otherVars

\* Handle from its entry to now := time.Now() in shouldFilterDuplicateError
Start(t, i, msg) ==
    /\ ~fatal
    /\ thr[t].pc \in {"idle", "done"}
    /\ i \in DOMAIN filters
    /\ LET h     == filters[i]
           r     == ErrRecord(msg)
           early == EarlyReject(h, r)
           peers == {u \in Threads \ {t} :
                        thr[u].pc \in Undecided /\ thr[u].h = i /\ thr[u].msg = msg}
           mine  == [pc |-> "lock", h |-> i, msg |-> msg, now |-> clock,
                     outcome |-> "none",
                     fresh0 |-> Lookup(trackers[h.errorTracker], msg, clock, h.errorWindow),
                     late |-> FALSE, accDuring |-> FALSE, ov |-> peers]
       IN thr' = [u \in Threads |->
                    IF u = t
                    THEN IF early # "none"
                         THEN [mine EXCEPT !.pc = "done", !.outcome = early, !.ov = {}]
                         ELSE IF ~IsContextError(msg)
                         THEN [mine EXCEPT !.pc = "done", !.ov = {},
                                           !.outcome = AfterDedup(h, r, FALSE).outcome]
                         ELSE mine
                    ELSE [thr[u] EXCEPT !.ov = @ \ {t}]]
    /\ UNCHANGED <<filters, trackers, fatal>>
    /\ ConcFrame

\* what h.errorMutex.Lock() waits for
AlwaysFree_CanLock(m) == TRUE

CanLock(m) == m = "unlocked"

\* h.errorMutex.Lock()
Lock(t) ==
    /\ ~fatal
    /\ thr[t].pc = "lock"
    /\ CanLock(filters[thr[t].h].errorMutex)
    /\ filters' = [filters EXCEPT ![thr[t].h].errorMutex = "locked"]
    /\ thr' = [thr EXCEPT ![t].pc = "purge",
                          ![t].late = (clock - thr[t].now >= filters[thr[t].h].errorWindow)]
    /\ UNCHANGED <<trackers, fatal>>
    /\ ConcFrame

\* the purge loop
PurgeStep(t) ==
    /\ ~fatal
    /\ thr[t].pc = "purge"
    /\ trackers' = [trackers EXCEPT ![TrackerOf(t)] =
                        Purge(@, thr[t].now, filters[thr[t].h].errorWindow)]
    /\ thr' = [thr EXCEPT ![t].pc = "lookup"]
    /\ UNCHANGED <<filters, fatal>>
    /\ ConcFrame

\* the lookup: return true inside the window
LookupStep(t) ==
    /\ ~fatal
    /\ thr[t].pc = "lookup"
    /\ IF Lookup(trackers[TrackerOf(t)], thr[t].msg, thr[t].now,
                 filters[thr[t].h].errorWindow)
       THEN thr' = [thr EXCEPT ![t].pc = "unlock", ![t].outcome = "duplicate"]
       ELSE thr' = [thr EXCEPT ![t].pc = "insert"]
    /\ UNCHANGED <<filters, trackers, fatal>>
    /\ ConcFrame

\* h.errorTracker[msg] = now; return false
InsertStep(t) ==
    /\ ~fatal
    /\ thr[t].pc = "insert"
    /\ trackers' = [trackers EXCEPT ![TrackerOf(t)] = Insert(@, thr[t].msg, thr[t].now)]
    /\ thr' = [u \in Threads |->
                 IF u = t
                 THEN [thr[t] EXCEPT !.pc = "unlock", !.outcome = "forwarded"]
                 ELSE IF /\ thr[u].pc \in Undecided \cup {"unlock"}
                         /\ TrackerOf(u) = TrackerOf(t)
                         /\ thr[u].msg = thr[t].msg
                      THEN [thr[u] EXCEPT !.accDuring = TRUE]
                      ELSE thr[u]]
    /\ UNCHANGED <<filters, fatal>>
    /\ ConcFrame

\* the deferred h.errorMutex.Unlock(), then the rest of Handle
Unlock(t) ==
    /\ ~fatal
    /\ thr[t].pc = "unlock"
    /\ filters' = [filters EXCEPT ![thr[t].h].errorMutex = "unlocked"]
    /\ thr' = [thr EXCEPT ![t].pc = "done"]
    /\ UNCHANGED <<trackers, fatal>>
    /\ ConcFrame

\* two goroutines inside the section on one map: the runtime may detect the
\* concurrent map access and abort the process
MapFault(t) ==
    /\ ~fatal
    /\ thr[t].pc \in {"purge", "lookup", "insert"}
    /\ \E u \in Threads \ {t} :
          thr[u].pc \in {"purge", "lookup", "insert"} /\ TrackerOf(u) = TrackerOf(t)
    /\ fatal' = TRUE
    /\ UNCHANGED <<filters, trackers, thr>>
    /\ ConcFrame

ConcMsgs == {<<"connection reset by peer">>, <<"broken pipe">>}

InitConc ==
    /\ InitFilter(PipelineFilter("color", LevelInfo))
    /\ IdleConc /\ IdleMulti /\ IdleOther

NextConc ==
    \/ \E t \in Threads, i \in 1 .. (1 + MaxDerived), m \in ConcMsgs : Start(t, i, m)
    \/ \E t \in Threads : Lock(t)
    \/ \E t \in Threads : PurgeStep(t)
    \/ \E t \in Threads : LookupStep(t)
    \/ \E t \in Threads : InsertStep(t)
    \/ \E t \in Threads : Unlock(t)
    \/ \E t \in Threads : MapFault(t)
    \/ \E i \in 1 .. (1 + MaxDerived) : ~fatal /\ WithAttrs(i)
    \/ \E i \in 1 .. (1 + MaxDerived) : ~fatal /\ WithGroup(i)
    \/ ~fatal /\ Tick(ErrorWindow + 1)

SpecConc == InitConc /\ [][NextConc]_vars

\* C7: no two goroutines are at the same time inside the purge/lookup/insert
\* section on the same map, whichever handlers of the family they emit
\* through.
C7_MutualExclusion ==
    \A t \in Threads : \A u \in Threads \ {t} :
        ~(/\ thr[t].pc \in InSection
          /\ thr[u].pc \in InSection
          /\ TrackerOf(t) = TrackerOf(u))

\* SpecSingle: the goroutines of SpecConc on one handler value, no derivation
NextSingle ==
    \/ \E t \in Threads, m \in ConcMsgs : Start(t, 1, m)
    \/ \E t \in Threads : Lock(t)
    \/ \E t \in Threads : PurgeStep(t)
    \/ \E t \in Threads : LookupStep(t)
    \/ \E t \in Threads : InsertStep(t)
    \/ \E t \in Threads : Unlock(t)
    \/ Tick(ErrorWindow + 1)

SpecSingle == InitConc /\ [][NextSingle]_vars

Overlap(t, u) == u \in thr[t].ov \/ t \in thr[u].ov

\* C8: on one handler value the section is atomic: no two goroutines are
\* inside it together; of the calls that emit one context-error message at
\* the same instant, each taking the lock less than a window after it read
\* the clock, no two are forwarded; and a call that found no fresh entry
\* when it started is rejected only because another was forwarded meanwhile.
C8_AtomicSection ==
    /\ \A t \in Threads : \A u \in Threads \ {t} :
          (/\ thr[t].pc = "done" /\ thr[u].pc = "done"
           /\ thr[t].h = thr[u].h /\ thr[t].msg = thr[u].msg
           /\ thr[t].now = thr[u].now
           /\ Overlap(t, u)
           /\ ~thr[t].late /\ ~thr[u].late)
          => ~(thr[t].outcome = "forwarded" /\ thr[u].outcome = "forwarded")
    /\ \A t \in Threads : \A u \in Threads \ {t} :
          ~(thr[t].pc \in InSection /\ thr[u].pc \in InSection /\ thr[t].h = thr[u].h)
    /\ \A t \in Threads :
          (thr[t].pc = "done" /\ thr[t].outcome = "duplicate" /\ ~thr[t].fresh0)
          => thr[t].accDuring

\* two overlapping calls on the original handler, one forwarded, one rejected
C8_Witness ==
    \E t \in Threads : \E u \in Threads \ {t} :
        /\ thr[t].pc = "done" /\ thr[u].pc = "done"
        /\ thr[t].h = 1 /\ thr[u].h = 1 /\ thr[t].msg = thr[u].msg
        /\ thr[t].now = thr[u].now /\ Overlap(t, u)
        /\ ~thr[t].fresh0 /\ ~thr[u].fresh0
        /\ thr[t].outcome = "forwarded" /\ thr[u].outcome = "duplicate"

----------------------------------------------------------------------------
(* SpecColor: goroutines inside one ColorHandler.  Handle takes h.mu,      *)
(* writes the parts of the record one by one and releases h.mu on return;  *)
(* SetCompactMode and SetHighlightEnabled take h.mu around their store.    *)

\* the writes Handle makes for a record, in order: the blank line when the
\* last record is more than 200 ms old, level, time, message, the end of the
\* line, and one write sequence per attribute
WritesOf(gap, nAttrs) ==
    (IF gap THEN <<"gap">> ELSE <<>>)
    \o <<"level", "time", "message", "newline">>
    \o [k \in 1 .. nAttrs |-> "attr"]

\* a bug to compare with: Lock does not wait
AlwaysFree_MuFree(m) == TRUE

\* what h.mu.Lock() waits for
MuFree(m) == m = 0

\* a bug to compare with: the last write error is returned
Propagating_HandleReturn(failed) == IF failed THEN "error" ELSE "nil"

\* return nil: the results of Fprintf and Fprintln are not looked at
HandleReturn(failed) == "nil"

ColorFrame ==
    /\ UNCHANGED filterVars
    /\ UNCHANGED concVars
    /\ UNCHANGED multiVars
    /\ UNCHANGED mw
    /\ UNCHANGED utilVars

\* a goroutine calls a method of the handler
ColorCall(t, op, todo, arg) ==
    /\ cthr[t].pc \in {"idle", "done"}
    /\ cthr' = [cthr EXCEPT ![t] =
                  [IdleWriter EXCEPT !.pc = "lock", !.op = op, !.todo = todo, !.arg = arg]]
    /\ UNCHANGED <<cmu, mode, sink>>
    /\ ColorFrame

ColorHandle(t, gap, nAttrs) == ColorCall(t, "Handle", WritesOf(gap, nAttrs), FALSE)

SetCompactMode(t, compact) == ColorCall(t, "SetCompactMode", <<>>, compact)

SetHighlightEnabled(t, enabled) == ColorCall(t, "SetHighlightEnabled", <<>>, enabled)

\* h.mu.Lock(); in Handle, on to the first read of h.compactMode
MuLock(t) ==
    /\ cthr[t].pc = "lock"
    /\ MuFree(cmu)
    /\ cmu' = t
    /\ cthr' = [cthr EXCEPT ![t].pc = IF cthr[t].op = "Handle" THEN "write" ELSE "store",
                            ![t].compact = mode.compact,
                            ![t].failed = (cthr[t].op = "Handle")]
    /\ UNCHANGED <<mode, sink>>
    /\ ColorFrame

\* one write of the record to h.w; ok is whether the writer took it
Write(t, ok) ==
    /\ cthr[t].pc = "write"
    /\ LET part == Head(cthr[t].todo)
           rest == Tail(cthr[t].todo)
       IN /\ cthr' = [cthr EXCEPT
                        ![t].todo = rest,
                        ![t].pc = IF rest = <<>> THEN "unlock" ELSE "write",
                        ![t].highlight = IF part = "message" THEN mode.highlight ELSE @,
                        ![t].failed = @ /\ ~ok]
          /\ sink' = [owner |-> IF rest = <<>> THEN 0 ELSE t,
                      mixed |-> sink.mixed \/ sink.owner \notin {0, t},
                      torn  |-> \/ sink.torn
                                \/ part = "level" /\ mode.compact # cthr[t].compact
                                \/ part = "attr" /\ mode.highlight # cthr[t].highlight]
    /\ UNCHANGED <<cmu, mode>>
    /\ ColorFrame

\* h.compactMode = compact, h.enableHighlight = enabled
Store(t) ==
    /\ cthr[t].pc = "store"
    /\ mode' = IF cthr[t].op = "SetCompactMode"
               THEN [mode EXCEPT !.compact = cthr[t].arg]
               ELSE [mode EXCEPT !.highlight = cthr[t].arg]
    /\ cthr' = [cthr EXCEPT ![t].pc = "unlock"]
    /\ UNCHANGED <<cmu, sink>>
    /\ ColorFrame

\* the deferred h.mu.Unlock() and the return
MuUnlock(t) ==
    /\ cthr[t].pc = "unlock"
    /\ cmu' = 0
    /\ cthr' = [cthr EXCEPT
                  ![t].pc = "done",
                  ![t].compact = FALSE,
                  ![t].highlight = FALSE,
                  ![t].result = IF cthr[t].op = "Handle"
                                THEN HandleReturn(cthr[t].failed) ELSE "void"]
    /\ UNCHANGED <<mode, sink>>
    /\ ColorFrame

\* NewColorHandler: highlight on, compact mode off
InitColor ==
    /\ InitFilter(PipelineFilter("color", LevelInfo))
    /\ IdleConc /\ IdleMulti /\ IdleOther

NextColor ==
    \/ \E t \in Threads, gap \in BOOLEAN, n \in 0 .. 1 : ColorHandle(t, gap, n)
    \/ \E t \in Threads, b \in BOOLEAN : SetCompactMode(t, b)
    \/ \E t \in Threads, b \in BOOLEAN : SetHighlightEnabled(t, b)
    \/ \E t \in Threads : MuLock(t)
    \/ \E t \in Threads, ok \in BOOLEAN : Write(t, ok)
    \/ \E t \in Threads : Store(t)
    \/ \E t \in Threads : MuUnlock(t)

SpecColor == InitColor /\ [][NextColor]_vars

InColor == {"write", "store", "unlock"}

\* C14: the writes of one record are made under the handler's lock: no
\* write of another record falls between the first and the last write of a
\* record, no two goroutines are past Lock together, and the mode setters,
\* which take the same lock, change no mode a record in progress has read.
C14_WritesUnderLock ==
    /\ ~sink.mixed
    /\ ~sink.torn
    /\ \A t \in Threads : \A u \in Threads \ {t} :
          ~(cthr[t].pc \in InColor /\ cthr[u].pc \in InColor)
    /\ \A t \in Threads : cthr[t].pc \in InColor => cmu = t

\* a record half written while a setter that would change the mode it has
\* read waits for the lock
C14_Witness ==
    \E t \in Threads : \E u \in Threads \ {t} :
        /\ cthr[t].pc = "write"
        /\ Head(cthr[t].todo) = "level"
        /\ cthr[u].pc = "lock"
        /\ cthr[u].op = "SetCompactMode"
        /\ cthr[u].arg # cthr[t].compact

\* C15: Handle returns nil for every record, also when every write to the
\* writer failed, and the lock is free of the goroutine once it has returned.
C15_HandleReturnsNil ==
    \A t \in Threads :
        (cthr[t].pc = "done" /\ cthr[t].op = "Handle")
        => (cthr[t].result = "nil" /\ cmu # t)

\* a call all of whose writes failed has returned
C15_Witness ==
    \E t \in Threads :
        /\ cthr[t].pc = "done" /\ cthr[t].op = "Handle"
        /\ cthr[t].failed
        /\ cmu = 0

----------------------------------------------------------------------------
(* SpecMw: the gin request middleware.  A path is a sequence of pieces of  *)
(* the path string, so that a prefix of the sequence is a prefix of the    *)
(* string.  Between the two halves of the middleware c.Next() runs the     *)
(* downstream handlers, which set the response status or panic.            *)

\* strings.HasPrefix
HasPrefix(str, prefix) ==
    Len(prefix) <= Len(str) /\ SubSeq(str, 1, Len(prefix)) = prefix

\* the loop over cfg.SkipPaths from the k-th on
RECURSIVE SkipFrom(_, _, _)
SkipFrom(skipPaths, k, path) ==
    IF k > Len(skipPaths) THEN FALSE
    ELSE IF HasPrefix(path, skipPaths[k]) THEN TRUE
    ELSE SkipFrom(skipPaths, k + 1, path)

\* a bug to compare with: a path is skipped only when it equals a skip path
Exact_SkipMatch(skipPaths, path) ==
    \E k \in DOMAIN skipPaths : path = skipPaths[k]

SkipMatch(skipPaths, path) == SkipFrom(skipPaths, 1, path)

\* a bug to compare with: 500 itself is taken for a client error
Above_getLogLevelForStatus(status) ==
    IF status > 500 THEN LevelError
    ELSE IF status >= 400 THEN LevelWarn
    ELSE LevelInfo

\* getLogLevelForStatus: the switch, case by case
getLogLevelForStatus(status) ==
    IF status >= 500 THEN LevelError
    ELSE IF status >= 400 THEN LevelWarn
    ELSE IF status >= 300 THEN LevelInfo
    ELSE LevelInfo

\* DefaultGinMiddlewareConfig().SkipPaths
DefaultSkipPaths == <<<<"/health">>, <<"/ping">>, <<"/metrics">>>>

MwFrame ==
    /\ UNCHANGED filterVars
    /\ UNCHANGED concVars
    /\ UNCHANGED multiVars
    /\ UNCHANGED colorVars
    /\ UNCHANGED utilVars

\* a request comes in: the middleware up to its call of c.Next()
Arrive(method, path) ==
    /\ mw.pc \in {"idle", "done"}
    /\ mw' = [NoRequest EXCEPT
                !.skipPaths = mw.skipPaths,
                !.method = method,
                !.path = path,
                !.pc = IF SkipMatch(mw.skipPaths, path) THEN "skipnext" ELSE "next"]
    /\ MwFrame

\* c.Next() returns: the downstream handlers have written the status; on a
\* skipped path the middleware returns right after
CNext(status) ==
    /\ mw.pc \in {"skipnext", "next"}
    /\ mw' = [mw EXCEPT !.served = TRUE, !.status = status,
                        !.pc = IF mw.pc = "skipnext" THEN "done" ELSE "after"]
    /\ MwFrame

\* c.Next() panics: the rest of the middleware does not run
CNextPanics ==
    /\ mw.pc \in {"skipnext", "next"}
    /\ mw' = [mw EXCEPT !.served = TRUE, !.panicked = TRUE, !.pc = "done"]
    /\ MwFrame

\* the rest of the middleware: c.Writer.Status(), the attributes,
\* getLogLevelForStatus and slog.LogAttrs
Emit ==
    /\ mw.pc = "after"
    /\ mw' = [mw EXCEPT
                !.out = Append(@, [level |-> getLogLevelForStatus(mw.status),
                                   msg |-> <<"HTTP Request">>,
                                   method |-> mw.method,
                                   path |-> mw.path,
                                   status |-> mw.status,
                                   afterNext |-> mw.served]),
                !.pc = "done"]
    /\ MwFrame

StatusCodes ==
    {-1, 0, 100, 200, 201, 299, 300, 304, 399, 400, 404, 499, 500, 503, 599, 600}

Methods == {"GET", "POST"}

Paths ==
    {<<"/api", "/v1", "/users">>, <<"/health">>, <<"/health", "z">>,
     <<"/ping">>, <<"/metrics", "/cpu">>, <<"/api", "/health">>, <<"/">>}

\* GinMiddleware(), or GinMiddlewareWithConfig with no skip paths
InitMw ==
    /\ InitFilter(PipelineFilter("color", LevelInfo))
    /\ IdleConc /\ IdleMulti /\ IdleColor /\ IdleUtil
    /\ \E sp \in {DefaultSkipPaths, <<>>} : mw = [NoRequest EXCEPT !.skipPaths = sp]

NextMw ==
    \/ \E m \in Methods, p \in Paths : Arrive(m, p)
    \/ \E st \in StatusCodes : CNext(st)
    \/ CNextPanics
    \/ Emit

SpecMw == InitMw /\ [][NextMw]_vars

Skipped ==
    \E k \in DOMAIN mw.skipPaths :
        /\ Len(mw.skipPaths[k]) <= Len(mw.path)
        /\ \A j \in DOMAIN mw.skipPaths[k] : mw.path[j] = mw.skipPaths[k][j]

C20_SeverityByStatus ==
    \A k \in DOMAIN mw.out :
        mw.out[k].level =
            CASE mw.out[k].status >= 500 -> LevelError
              [] mw.out[k].status >= 400 /\ mw.out[k].status <= 499 -> LevelWarn
              [] OTHER -> LevelInfo

\* a record for status 500
C20_Witness ==
    \E k \in DOMAIN mw.out :
        mw.out[k].status = 500 /\ mw.out[k].level = LevelError

----------------------------------------------------------------------------
(* SpecMulti: MultiHandler.  A frame of the stack is one call of           *)
(* MultiHandler.Handle: its record and the member the loop has come to.    *)
(* A member that writes to a writer in `broken` returns the write error.   *)

\* the loop of MultiHandler.Enabled from member i on: true at the first
\* member that is enabled, false when the list is exhausted
RECURSIVE EnabledFrom(_, _, _)
EnabledFrom(ms, i, level) ==
    IF i > Len(ms) THEN FALSE
    ELSE IF WrappedEnabled(ms[i], level) THEN TRUE
    ELSE EnabledFrom(ms, i + 1, level)

\* a bug to compare with: the loop stops at the first member
FirstOnly_MultiEnabled(ms, level) ==
    Len(ms) > 0 /\ WrappedEnabled(ms[1], level)

\* MultiHandler.Enabled
MultiEnabled(ms, level) == EnabledFrom(ms, 1, level)

\* a bug to compare with: the record itself is handed to every member
Shared_CloneId(calls) == 0

\* r.Clone(): the copy made for one member is a record of its own
CloneId(calls) == Len(calls) + 1

\* the record of slog.Default().Error("Handler error", "error", err)
HandlerErrorRecord ==
    [level |-> LevelError, msg |-> <<"Handler error">>, attrs |-> <<"error">>]

Top == stack[Len(stack)]

MultiFrame ==
    /\ UNCHANGED filterVars
    /\ UNCHANGED concVars
    /\ UNCHANGED <<members, defaultIsMulti, scoped>>
    /\ UNCHANGED otherVars

\* a Logger method on the dispatcher: Enabled, then Handle is entered; the
\* record is dropped when Enabled says no
Dispatch(r) ==
    /\ ~crashed
    /\ stack = <<>>
    /\ delivered' = [rec |-> r, to |-> {}, failed |-> {}, calls |-> <<>>]
    /\ IF MultiEnabled(members, r.level)
       THEN stack' = <<[rec |-> r, i |-> 1]>> /\ ret' = "running"
       ELSE stack' = <<>> /\ ret' = "dropped"
    /\ UNCHANGED <<broken, crashed>>
    /\ MultiFrame

\* one turn of the loop of Handle: the member's Enabled, its Handle on a
\* clone, and on an error slog.Default().Error, which enters Handle again
\* when the default logger is this dispatcher
Step ==
    /\ ~crashed
    /\ stack # <<>>
    /\ Top.i <= Len(members)
    /\ LET m        == members[Top.i]
           enabled  == WrappedEnabled(m, Top.rec.level)
           err      == enabled /\ WrappedHandleErr(m, Top.i \in broken)
           advanced == [stack EXCEPT ![Len(stack)].i = @ + 1]
           reenters == err /\ defaultIsMulti /\ MultiEnabled(members, LevelError)
       IN /\ delivered' = IF enabled /\ Len(stack) = 1
                          THEN [delivered EXCEPT
                                  !.to = @ \cup {Top.i},
                                  !.calls = Append(@, [member |-> Top.i,
                                                       copy |-> CloneId(@)]),
                                  !.failed = IF err THEN @ \cup {Top.i} ELSE @]
                          ELSE delivered
          /\ IF reenters /\ Len(stack) = MaxDepth
             THEN crashed' = TRUE /\ stack' = stack
             ELSE /\ crashed' = crashed
                  /\ stack' = IF reenters
                              THEN Append(advanced, [rec |-> HandlerErrorRecord, i |-> 1])
                              ELSE advanced
    /\ UNCHANGED <<broken, ret>>
    /\ MultiFrame

\* return nil
ReturnFrame ==
    /\ ~crashed
    /\ stack # <<>>
    /\ Top.i > Len(members)
    /\ stack' = SubSeq(stack, 1, Len(stack) - 1)
    /\ ret' = IF Len(stack) = 1 THEN "nil" ELSE ret
    /\ UNCHANGED <<broken, delivered, crashed>>
    /\ MultiFrame

\* the writer of member i starts to fail on every write
Break(i) ==
    /\ ~crashed
    /\ i \in DOMAIN members
    /\ i \notin broken
    /\ broken' = broken \cup {i}
    /\ UNCHANGED <<stack, delivered, ret, crashed>>
    /\ MultiFrame

\* the writer of member i works again, between two calls
Repair(i) ==
    /\ ~crashed
    /\ stack = <<>>
    /\ i \in broken
    /\ broken' = broken \ {i}
    /\ UNCHANGED <<stack, delivered, ret, crashed>>
    /\ MultiFrame

\* the member's own WithAttrs or WithGroup
MemberDerive(m, via) ==
    IF via = "attrs" THEN WrappedWithAttrs(m) ELSE WrappedWithGroup(m)

\* a bug to compare with: the results are written into the receiver's slice
InPlace_MultiDerive(ms, via) ==
    [receiver |-> [i \in 1 .. Len(ms) |-> MemberDerive(ms[i], via)],
     result   |-> [i \in 1 .. Len(ms) |-> MemberDerive(ms[i], via)]]

\* MultiHandler.WithAttrs / WithGroup: a new slice of len(h.handlers), its
\* i-th element the i-th member's WithAttrs / WithGroup; h.handlers is read only
MultiDerive(ms, via) ==
    [receiver |-> ms,
     result   |-> [i \in 1 .. Len(ms) |-> MemberDerive(ms[i], via)]]

\* the member list of dispatcher src: 0 is the original, k the k-th derived
HandlersOf(src) == IF src = 0 THEN members ELSE scoped[src].handlers

MultiWith(src, via) ==
    /\ ~crashed
    /\ src \in 0 .. Len(scoped)
    /\ Len(scoped) <= MaxDerived
    /\ LET d    == MultiDerive(HandlersOf(src), via)
           made == [via |-> via, from |-> HandlersOf(src), after |-> d.receiver,
                    handlers |-> d.result]
       IN /\ members' = IF src = 0 THEN d.receiver ELSE members
          /\ scoped' = Append(IF src = 0 THEN scoped
                              ELSE [scoped EXCEPT ![src].handlers = d.receiver],
                              made)
    /\ UNCHANGED <<defaultIsMulti, broken, stack, delivered, ret, crashed>>
    /\ UNCHANGED filterVars
    /\ UNCHANGED concVars
    /\ UNCHANGED otherVars

MultiWithAttrs(src) == MultiWith(src, "attrs")

MultiWithGroup(src) == MultiWith(src, "group")

MemberKinds  == {"color", "text"}
MemberLevels == {LevelInfo, LevelWarn}
MultiRecords == [level : Levels, msg : {<<"request", "completed">>}, attrs : {<<>>}]

MemberLists ==
    UNION {[1 .. n -> {Wrapped(k, l) : k \in MemberKinds, l \in MemberLevels}] :
             n \in 0 .. MaxMembers}

\* NewMultiHandler(handlers...), and whether slog.SetDefault was given its logger
InitMulti ==
    /\ InitFilter(PipelineFilter("color", LevelInfo))
    /\ IdleConc
    /\ members \in MemberLists
    /\ defaultIsMulti \in BOOLEAN
    /\ broken = {}
    /\ stack = <<>>
    /\ delivered = NoDelivery
    /\ ret = "none"
    /\ crashed = FALSE
    /\ scoped = <<>>
    /\ IdleOther

NextMulti ==
    \/ \E r \in MultiRecords : Dispatch(r)
    \/ Step
    \/ ReturnFrame
    \/ \E i \in 1 .. MaxMembers : Break(i)
    \/ \E i \in 1 .. MaxMembers : Repair(i)

SpecMulti == InitMulti /\ [][NextMulti]_vars

\* SpecScoped: scoped loggers derived from the dispatcher and from each other
NextScoped ==
    \/ \E src \in 0 .. MaxDerived : MultiWithAttrs(src)
    \/ \E src \in 0 .. MaxDerived : MultiWithGroup(src)

SpecScoped == InitMulti /\ [][NextScoped]_vars

\* the call of the dispatcher is over: it returned, or the process died in it
Over == ret = "nil" \/ crashed

\* C9: when member A's Handle returned an error on a record and member B
\* is enabled for the record's level, the dispatch ends with B's Handle
\* invoked on the record and nil returned to the caller, whichever of the
\* two comes first in the member list.
C9_FanOutIndependence ==
    \A a \in delivered.failed : \A b \in DOMAIN members \ {a} :
        (Over /\ WrappedEnabled(members[b], delivered.rec.level))
        => (b \in delivered.to /\ ret = "nil")

\* C10: with the dispatcher as the default logger, the reports of a
\* member's failures never nest until the goroutine's stack is exhausted:
\* Handle comes back, also when a member fails on every call.
C10_HandleTerminates ==
    defaultIsMulti => ~crashed

\* C11: the dispatcher's Enabled says yes exactly when some member's
\* Enabled says yes for the level, and so says no for an empty member list:
\* the logger drops the record in the one case and enters Handle in the other.
C11_EnabledIsOr ==
    /\ ret = "dropped" =>
          ~\E i \in DOMAIN members : WrappedEnabled(members[i], delivered.rec.level)
    /\ ret \in {"running", "nil"} =>
          \E i \in DOMAIN members : WrappedEnabled(members[i], delivered.rec.level)
    /\ (members = <<>> /\ ret # "none") => ret = "dropped"

\* a record entered Handle although the first member is disabled for it
C11_Witness ==
    /\ ret = "nil"
    /\ Len(members) = 2
    /\ ~WrappedEnabled(members[1], delivered.rec.level)
    /\ WrappedEnabled(members[2], delivered.rec.level)

\* the members enabled for a level, in member order
RECURSIVE EnabledMembers(_, _, _)
EnabledMembers(ms, i, level) ==
    IF i > Len(ms) THEN <<>>
    ELSE IF level >= ms[i].minLevel
         THEN <<i>> \o EnabledMembers(ms, i + 1, level)
         ELSE EnabledMembers(ms, i + 1, level)

\* C12: when the dispatch of a record is over, the Handle calls made with
\* the record are exactly one per enabled member, in member order, none for
\* a disabled member, each with a copy of its own.
C12_OncePerEnabledMember ==
    Over =>
        /\ [k \in DOMAIN delivered.calls |-> delivered.calls[k].member]
             = EnabledMembers(members, 1, delivered.rec.level)
        /\ \A k \in DOMAIN delivered.calls :
              /\ delivered.calls[k].copy # 0
              /\ \A l \in DOMAIN delivered.calls :
                    k # l => delivered.calls[k].copy # delivered.calls[l].copy

\* C13: WithAttrs/WithGroup on a dispatcher with n members returns a
\* dispatcher with n members, the i-th being the i-th member's own
\* WithAttrs/WithGroup result, and the receiver's member list is as before.
C13_DerivedDispatcher ==
    \A k \in DOMAIN scoped :
        /\ Len(scoped[k].handlers) = Len(scoped[k].from)
        /\ \A i \in DOMAIN scoped[k].from :
              scoped[k].handlers[i] =
                  IF scoped[k].from[i].kind = "color" THEN scoped[k].from[i]
                  ELSE IF scoped[k].via = "attrs"
                       THEN [scoped[k].from[i] EXCEPT !.bound = @ + 1]
                       ELSE [scoped[k].from[i] EXCEPT !.groups = @ + 1]
        /\ scoped[k].after = scoped[k].from
        /\ members = scoped[1].from

\* a dispatcher derived from two members, one of them a text handler
C13_Witness ==
    \E k \in DOMAIN scoped :
        /\ Len(scoped[k].from) = 2
        /\ scoped[k].from[1].kind = "text"
        /\ scoped[k].handlers[1].bound = 1
        /\ scoped[k].handlers[2] = scoped[k].from[2]

\* the message, or the value of an attribute keyed path or url, matches the
\* health-check path pattern
HealthPathRecord ==
    \/ healthCheckRegex(last.msg)
    \/ \E i \in DOMAIN last.attrs :
          last.attrs[i].key \in {"path", "url"} /\ healthCheckRegex(<<last.attrs[i].val>>)

\* C16: with health-check filtering configured, a record at or above the
\* minimum level whose message or path/url attribute matches the
\* health-check pattern is rejected before the duplicate test; without it
\* no record is rejected on that ground.
C16_PathSuppression ==
    Called =>
        /\ (/\ filters[last.h].ignoreHealthCheck
            /\ last.level >= filters[last.h].minLevel
            /\ HealthPathRecord)
           => last.outcome \in {"gin", "internal", "health", "disabled"}
        /\ ~filters[last.h].ignoreHealthCheck => last.outcome # "health"

\* a record rejected for its url attribute alone
C16_Witness ==
    /\ Called
    /\ last.outcome = "health"
    /\ ~healthCheckRegex(last.msg)
    /\ \E i \in DOMAIN last.attrs : last.attrs[i].key = "url"

\* C17: a record whose message is empty or only whitespace is never
\* forwarded to the wrapped handler, whatever its level and attributes.
C17_BlankNeverForwarded ==
    (Called /\ \A i \in DOMAIN last.msg : last.msg[i] \in {" ", "\t"})
    => last.outcome # "forwarded"

\* a whitespace-only message that passed every other rule and was rejected
C17_Witness ==
    /\ Called
    /\ last.msg = <<" ", "\t">>
    /\ last.outcome = "blank"

\* the entries of the map of handler i that are more than the window older
\* than time at
StaleEntries(i, at) ==
    {m \in DOMAIN trackers[filters[i].errorTracker] :
        at - trackers[filters[i].errorTracker][m] > filters[i].errorWindow}

\* C18 as stated: after any Handle call returns, whatever the record, the
\* map holds no entry more than the window older than the time of the call.
C18_Original ==
    Called => StaleEntries(last.h, last.at) = {}

\* the call that has just returned came to the duplicate test
ReachedDedup ==
    /\ Called
    /\ last.outcome \in {"duplicate", "forwarded", "blank"}
    /\ IsContextError(last.msg)

\* C18 as amended: after a Handle call that came to the duplicate test
\* returns, the map holds no entry more than the window older than the time
\* of the call.
C18_PurgeOnDedup ==
    ReachedDedup => StaleEntries(last.h, last.at) = {}

\* a call that found an entry older than the window and came to the test
C18_Witness ==
    /\ ReachedDedup
    /\ last.prev # -1
    /\ last.at - last.prev > filters[last.h].errorWindow

\* C40: the purge deletes an entry only when it is more than the window old
\* and the duplicate test rejects only when it is less than the window old:
\* an entry stays in the map as long as it is at most the window old, a
\* context error emitted exactly the window after its last accepted emission
\* finds its entry, is accepted and overwrites the entry with the time of
\* the call, and after a call that came to the duplicate test every entry of
\* the map is at most the window old.
C40_WindowBoundary ==
    /\ \A i \in DOMAIN filters : \A m \in DOMAIN accepted :
          clock - accepted[m].at <= ErrorWindow
              => Entry(trackers[filters[i].errorTracker], m) = accepted[m].at
    /\ (PassedRules /\ IsContextError(last.msg) /\ last.prevAcc >= 0
            /\ last.at - last.prevAcc = ErrorWindow)
          => /\ last.prev = last.prevAcc
             /\ last.outcome = "forwarded"
             /\ Entry(trackers[filters[last.h].errorTracker], last.msg) = last.at
    /\ (Called /\ last.outcome = "duplicate") => last.at - last.prev < ErrorWindow
    /\ ReachedDedup =>
          \A m \in DOMAIN trackers[filters[last.h].errorTracker] :
              last.at - trackers[filters[last.h].errorTracker][m] <= ErrorWindow

\* a message accepted exactly the window after its last accepted emission,
\* while the entry of another message, also exactly the window old, was kept
C40_Witness ==
    /\ PassedRules /\ IsContextError(last.msg)
    /\ last.prevAcc >= 0 /\ last.at - last.prevAcc = ErrorWindow
    /\ last.outcome = "forwarded"
    /\ \E m \in DOMAIN trackers[filters[last.h].errorTracker] :
          m # last.msg /\ last.at - trackers[filters[last.h].errorTracker][m] = ErrorWindow

----------------------------------------------------------------------------
(* SpecChain: one request through the handlers the gin server installs,    *)
(* in their order: RequestID, GinMiddleware, Recovery, and two downstream  *)
(* handlers.  A string is a sequence of pieces of its text; the empty      *)
(* string is <<>>.  A header map gives, for each name it holds, the list   *)
(* of the values of that header.                                           *)

\* http.Header.Get under c.GetHeader: the first value, "" when absent
GetHeader(header, name) ==
    IF name \in DOMAIN header /\ Len(header[name]) > 0 THEN header[name][1] ELSE <<>>

\* strings.Join
RECURSIVE Join(_, _)
Join(values, sep) ==
    IF Len(values) = 0 THEN <<>>
    ELSE IF Len(values) = 1 THEN values[1]
    ELSE values[1] \o sep \o Join(Tail(values), sep)

\* strings.ToLower on the header names of the model
ToLowerName(name) ==
    CASE name = "Authorization" -> "authorization"
      [] name = "X-Api-Key"     -> "x-api-key"
      [] name = "Cookie"        -> "cookie"
      [] name = "Accept"        -> "accept"
      [] name = "X-Request-Id"  -> "x-request-id"
      [] name = "Content-Type"  -> "content-type"
      [] OTHER                  -> name

sensitiveHeaders ==
    <<"authorization", "cookie", "x-api-key", "x-auth-token", "x-access-token",
      "x-csrf-token">>

\* the loop of isSensitiveHeader from the k-th name of the list on
RECURSIVE SensitiveFrom(_, _)
SensitiveFrom(nameLower, k) ==
    IF k > Len(sensitiveHeaders) THEN FALSE
    ELSE IF nameLower = sensitiveHeaders[k] THEN TRUE
    ELSE SensitiveFrom(nameLower, k + 1)

\* a bug to compare with: the name is compared as it was sent
AsSent_isSensitiveHeader(name) == SensitiveFrom(name, 1)

isSensitiveHeader(name) == SensitiveFrom(ToLowerName(name), 1)

FilteredMarker == <<"[FILTERED]">>

\* the map the middleware builds from c.Request.Header
HeadersMap(header) ==
    [name \in DOMAIN header |->
        IF isSensitiveHeader(name) THEN FilteredMarker
        ELSE Join(header[name], <<",", " ">>)]

\* shouldLogRequestBody
shouldLogRequestBody(method, contentType) ==
    IF method # "POST" /\ method # "PUT" /\ method # "PATCH" THEN FALSE
    ELSE IF HasPrefix(contentType, <<"multipart/form-data">>) THEN FALSE
    ELSE TRUE

TruncatedMarker == <<".", ".", ".", "(truncated)">>

\* strings.TrimSpace
RECURSIVE TrimLeft(_)
TrimLeft(str) ==
    IF Len(str) > 0 /\ Head(str) = " " THEN TrimLeft(Tail(str)) ELSE str

RECURSIVE TrimRight(_)
TrimRight(str) ==
    IF Len(str) > 0 /\ str[Len(str)] = " "
    THEN TrimRight(SubSeq(str, 1, Len(str) - 1)) ELSE str

TrimSpace(str) == TrimRight(TrimLeft(str))

\* json.Unmarshal accepts the text: of the bodies of the model, an object
\* of one member with or without blanks around its pieces
ValidJSON(str) ==
    LET bare == SelectSeq(str, LAMBDA piece : piece # " ")
    IN  bare = <<"{", "\"k\"", ":", "1", "}">>

\* formatJSONBody: the compact form of valid JSON, the text itself otherwise
formatJSONBody(jsonStr) ==
    IF ValidJSON(jsonStr) THEN SelectSeq(jsonStr, LAMBDA piece : piece # " ")
    ELSE jsonStr

\* prepareBodyForLogging
prepareBodyForLogging(bodyBytes, maxSize) ==
    IF Len(bodyBytes) = 0 THEN <<>>
    ELSE LET bodyStr == IF Len(bodyBytes) > maxSize
                        THEN SubSeq(bodyBytes, 1, maxSize) \o TruncatedMarker
                        ELSE bodyBytes
             trimmed == TrimSpace(bodyStr)
         IN  IF HasPrefix(trimmed, <<"{">>) \/ HasPrefix(trimmed, <<"[">>)
             THEN formatJSONBody(trimmed)
             ELSE bodyStr

----------------------------------------------------------------------------
(* Package utils.  A string is the sequence of its characters, each a      *)
(* string of length one.                                                   *)

Digits == {"0", "1", "2", "3", "4", "5", "6", "7", "8", "9"}

DigitVal(ch) ==
    CASE ch = "0" -> 0 [] ch = "1" -> 1 [] ch = "2" -> 2 [] ch = "3" -> 3
      [] ch = "4" -> 4 [] ch = "5" -> 5 [] ch = "6" -> 6 [] ch = "7" -> 7
      [] ch = "8" -> 8 [] ch = "9" -> 9

\* the index of the first occurrence of ch in str, 0 if there is none
RECURSIVE IndexFrom(_, _, _)
IndexFrom(str, ch, k) ==
    IF k > Len(str) THEN 0
    ELSE IF str[k] = ch THEN k
    ELSE IndexFrom(str, ch, k + 1)

Index(str, ch) == IndexFrom(str, ch, 1)

\* strings.Split(str, sep) for a separator of one character
RECURSIVE Split(_, _)
Split(str, sep) ==
    LET k == Index(str, sep)
    IN  IF k = 0 THEN <<str>>
        ELSE <<SubSeq(str, 1, k - 1)>> \o Split(SubSeq(str, k + 1, Len(str)), sep)

\* the value of a decimal field
RECURSIVE Decimal(_)
Decimal(field) ==
    IF Len(field) = 0 THEN 0
    ELSE 10 * Decimal(SubSeq(field, 1, Len(field) - 1)) + DigitVal(field[Len(field)])

\* one field of a dotted-decimal address: one to three digits, no leading
\* zero before another digit, at most 255
ValidOctet(field) ==
    /\ Len(field) \in 1..3
    /\ \A k \in DOMAIN field : field[k] \in Digits
    /\ (Len(field) > 1 => field[1] # "0")
    /\ Decimal(field) <= 255

\* the IPv6 texts that occur in the model
TextsIPv6 == {<<":", ":", "1">>}

\* a bug to compare with: any text of digits and dots is taken for an address
Lax_isValidIP(ip) ==
    Len(ip) > 0 /\ \A k \in DOMAIN ip : ip[k] \in Digits \cup {"."}

\* isValidIP: net.ParseIP(ip) != nil.  A text with a colon is parsed as
\* IPv6, any other text as four decimal fields between dots.
isValidIP(ip) ==
    IF Index(ip, ":") # 0 THEN ip \in TextsIPv6
    ELSE LET fields == Split(ip, ".")
         IN  Len(fields) = 4 /\ \A k \in DOMAIN fields : ValidOctet(fields[k])

\* net.SplitHostPort for host:port with a host without colons; any other
\* text is an error
SplitHostPort(addr) ==
    LET parts == Split(addr, ":")
    IN  IF Len(parts) = 2 THEN [host |-> parts[1], err |-> FALSE]
        ELSE [host |-> <<>>, err |-> TRUE]

\* GetClientIP
GetClientIP(header, remoteAddr) ==
    LET xff  == GetHeader(header, "X-Forwarded-For")
        xri  == GetHeader(header, "X-Real-Ip")
        cfip == GetHeader(header, "Cf-Connecting-Ip")
        ip   == TrimSpace(Split(xff, ",")[1])
    IN  IF xff # <<>> /\ isValidIP(ip) THEN ip
        ELSE IF xri # <<>> /\ isValidIP(xri) THEN xri
        ELSE IF cfip # <<>> /\ isValidIP(cfip) THEN cfip
        ELSE IF SplitHostPort(remoteAddr).err THEN remoteAddr
        ELSE SplitHostPort(remoteAddr).host

----------------------------------------------------------------------------
(* The handlers of the chain. *)

\* gin.Context.Keys / a map with string keys: the map with one more entry
Put(map, key, value) ==
    [k \in DOMAIN map \cup {key} |-> IF k = key THEN value ELSE map[k]]

ChainFrame ==
    /\ UNCHANGED filterVars
    /\ UNCHANGED concVars
    /\ UNCHANGED multiVars
    /\ UNCHANGED colorVars
    /\ UNCHANGED <<mw, boot, call, gated, render>>

\* the request of the chain and what the handlers have done with it
NewRequest(cfg, debug, req) ==
    [pc |-> "RequestID", cfg |-> cfg, debug |-> debug,
     method |-> req.method, path |-> req.path, header |-> req.header,
     body |-> req.body, remoteAddr |-> req.remoteAddr,
     respHeader |-> [name \in {} |-> <<>>], keys |-> [name \in {} |-> <<>>],
     skip |-> FALSE, bodyBytes |-> <<>>, status |-> 200, aborted |-> FALSE,
     ran |-> <<>>, panicked |-> FALSE, failed |-> "", fault |-> <<>>, out |-> <<>>]

\* a request comes in; every request starts from c.reset(), so the chain
\* is followed for one request
Receive(req) ==
    /\ chain.pc = "idle"
    /\ chain' = NewRequest(chain.cfg, chain.debug, req)
    /\ ChainFrame

\* RequestID, up to its call of c.Next(): generated is what
\* utils.GenerateRequestID would return
RequestID(generated) ==
    /\ chain.pc = "RequestID"
    /\ LET incoming  == GetHeader(chain.header, "X-Request-Id")
           requestID == IF incoming = <<>> THEN generated ELSE incoming
       IN  chain' = [chain EXCEPT
                !.respHeader = IF incoming = <<>>
                               THEN Put(@, "X-Request-Id", <<requestID>>)
                               ELSE @,
                !.keys = Put(@, "request_id", requestID),
                !.pc = "GinMiddleware"]
    /\ ChainFrame

\* GinMiddlewareWithConfig, up to its call of c.Next()
GinMiddleware ==
    /\ chain.pc = "GinMiddleware"
    /\ chain' = [chain EXCEPT
            !.skip = SkipMatch(chain.cfg.SkipPaths, chain.path),
            !.bodyBytes =
                IF /\ ~SkipMatch(chain.cfg.SkipPaths, chain.path)
                   /\ chain.cfg.LogBody
                   /\ shouldLogRequestBody(chain.method,
                                           GetHeader(chain.header, "Content-Type"))
                THEN chain.body ELSE <<>>,
            !.pc = "handlers"]
    /\ ChainFrame

DownstreamHandlers == <<"auth", "users">>

\* the loop of c.Next(): the next downstream handler, if the request is
\* not aborted
NextHandler == IF chain.aborted THEN 0 ELSE Len(chain.ran) + 1

\* a downstream handler runs and returns, having written a status or not
Serve(status) ==
    /\ chain.pc = "handlers"
    /\ NextHandler \in DOMAIN DownstreamHandlers
    /\ chain' = [chain EXCEPT
            !.ran = Append(@, DownstreamHandlers[NextHandler]),
            !.status = IF status = 0 THEN @ ELSE status]
    /\ ChainFrame

\* a bug to compare with: the status is written but the request not aborted
Unaborted_PanicRecovered(c, recovered) ==
    [c EXCEPT
        !.out = Append(@, [level |-> LevelError,
                           msg |-> <<"Panic recovered">>,
                           attrs |-> [type |-> <<"panic">>,
                                      method |-> c.method,
                                      path |-> c.path,
                                      client_ip |-> GetClientIP(c.header, c.remoteAddr),
                                      error |-> recovered,
                                      user_agent |-> GetHeader(c.header, "User-Agent")]]),
        !.status = 500]

\* what the function Recovery passes to gin.CustomRecovery does
PanicRecovered(c, recovered) ==
    [c EXCEPT
        !.out = Append(@, [level |-> LevelError,
                           msg |-> <<"Panic recovered">>,
                           attrs |-> [type |-> <<"panic">>,
                                      method |-> c.method,
                                      path |-> c.path,
                                      client_ip |-> GetClientIP(c.header, c.remoteAddr),
                                      error |-> recovered,
                                      user_agent |-> GetHeader(c.header, "User-Agent")]]),
        !.status = 500,
        !.aborted = TRUE]

\* a downstream handler panics with the value recovered: the deferred
\* function of gin.CustomRecovery calls the function of Recovery
Recovery(recovered) ==
    /\ chain.pc = "handlers"
    /\ NextHandler \in DOMAIN DownstreamHandlers
    /\ chain' = PanicRecovered([chain EXCEPT
                                   !.ran = Append(@, DownstreamHandlers[NextHandler]),
                                   !.panicked = TRUE,
                                   !.failed = DownstreamHandlers[NextHandler],
                                   !.fault = recovered],
                               recovered)
    /\ ChainFrame

\* slog.Default().Enabled(nil, slog.LevelDebug)
DebugEnabled(c) == c.debug

\* a bug to compare with: the headers are attached whenever the option is on
Ungated_HeadersAttr(c) ==
    IF c.cfg.LogHeaders /\ DOMAIN c.header # {}
    THEN [headers |-> HeadersMap(c.header)] ELSE [name \in {} |-> <<>>]

\* the optional attributes of the request record
HeadersAttr(c) ==
    IF c.cfg.LogHeaders /\ (c.status >= 400 \/ DebugEnabled(c))
       /\ DOMAIN c.header # {}
    THEN [headers |-> HeadersMap(c.header)] ELSE [name \in {} |-> <<>>]

BodyAttr(c) ==
    IF c.cfg.LogBody /\ Len(c.bodyBytes) > 0 /\ (c.status >= 400 \/ DebugEnabled(c))
    THEN [request_body |-> prepareBodyForLogging(c.bodyBytes, c.cfg.MaxBodySize)]
    ELSE [name \in {} |-> <<>>]

RequestIDAttr(c) ==
    IF GetHeader(c.header, "X-Request-Id") # <<>>
    THEN [request_id |-> GetHeader(c.header, "X-Request-Id")]
    ELSE [name \in {} |-> <<>>]

\* the record GinMiddlewareWithConfig logs
RequestRecord(c) ==
    [level |-> getLogLevelForStatus(c.status),
     msg |-> <<"HTTP Request">>,
     attrs |-> [type |-> <<"http_request">>,
                method |-> c.method,
                path |-> c.path,
                status |-> c.status,
                client_ip |-> GetClientIP(c.header, c.remoteAddr),
                user_agent |-> GetHeader(c.header, "User-Agent"),
                request_size |-> Len(c.bodyBytes)]
              @@ HeadersAttr(c) @@ BodyAttr(c) @@ RequestIDAttr(c)]

\* c.Next() has returned: the rest of GinMiddlewareWithConfig
LogRequest ==
    /\ chain.pc = "handlers"
    /\ NextHandler \notin DOMAIN DownstreamHandlers
    /\ chain' = [chain EXCEPT
            !.out = IF chain.skip THEN @ ELSE Append(@, RequestRecord(chain)),
            !.pc = "done"]
    /\ ChainFrame


\* the requests of the model: each header is absent or has one of a few
\* values
OptionalHeader(name, valueLists) ==
    {[n \in {} |-> <<>>]} \cup {[n \in {name} |-> v] : v \in valueLists}

ChainHeaders ==
    {a @@ b @@ c @@ d :
        a \in OptionalHeader("X-Request-Id", {<<<<"a", "b", "c">>>>}),
        b \in OptionalHeader("Authorization", {<<<<"s", "1">>>>, <<<<"s", "2">>>>}),
        c \in OptionalHeader("Accept", {<<<<"a/b">>, <<"c/d">>>>}),
        d \in OptionalHeader("Content-Type", {<<<<"multipart/form-data", ";", "x">>>>})}

ChainBodies ==
    {<<>>, <<"a", "b", "c">>, <<"{", " ", "\"k\"", ":", "1", "}">>}

ChainRequests ==
    [method : {"GET", "POST"},
     path : {<<"/api", "/users">>, <<"/health">>},
     header : ChainHeaders,
     body : ChainBodies,
     remoteAddr : {<<"1", "0", ".", "0", ".", "0", ".", "7", ":", "8", "0">>}]

\* what utils.GenerateRequestID may return
GeneratedIDs == {<<"req_", "1", "f">>, <<"req_", "2", "e">>}

\* a status a downstream handler writes; 0 stands for writing none
ChainStatuses == {0, 200, 404, 500}

Faults == {<<"nil pointer dereference">>}

\* GinMiddleware() under a loaded configuration
ChainConfigs ==
    [LogBody : BOOLEAN, LogHeaders : BOOLEAN, MaxBodySize : {2, 2048},
     SkipPaths : {DefaultSkipPaths}]

NoRequestYet ==
    [method |-> "", path |-> <<>>, header |-> [n \in {} |-> <<>>], body |-> <<>>,
     remoteAddr |-> <<>>]

InitChain ==
    /\ InitFilter(PipelineFilter("color", LevelInfo))
    /\ IdleConc /\ IdleMulti /\ IdleColor /\ IdleMw
    /\ boot = NoBoot /\ call = NoCall_utils /\ gated = {} /\ render = NoRender
    /\ \E cfg \in ChainConfigs, debug \in BOOLEAN :
          chain = [NewRequest(cfg, debug, NoRequestYet) EXCEPT !.pc = "idle"]

NextChain ==
    \/ \E req \in ChainRequests : Receive(req)
    \/ \E g \in GeneratedIDs : RequestID(g)
    \/ GinMiddleware
    \/ \E st \in ChainStatuses : Serve(st)
    \/ \E f \in Faults : Recovery(f)
    \/ LogRequest

SpecChain == InitChain /\ [][NextChain]_vars

\* the identifier RequestID assigned to the request of the chain
AssignedID == chain.keys["request_id"]

\* C21: the request record of a request that passed RequestID and then
\* GinMiddleware carries the identifier RequestID assigned to it, the
\* incoming one when the request had one and the generated one otherwise.
C21_RecordCarriesRequestID ==
    \A k \in DOMAIN chain.out :
        chain.out[k].attrs.type = <<"http_request">> =>
            /\ "request_id" \in DOMAIN chain.out[k].attrs
            /\ chain.out[k].attrs.request_id = AssignedID

\* the request records the chain has logged
RequestRecords ==
    {chain.out[k].attrs : k \in {j \in DOMAIN chain.out :
                                    chain.out[j].attrs.type = <<"http_request">>}}

\* C22: a request record has a headers attribute only if LogHeaders is on
\* and the status is 400 or more or debug logging is enabled, and a
\* request_body attribute only if LogBody is on and the same holds; the
\* record of a request with a status below 400, logged with debug logging
\* disabled, has neither.
C22_GatedAttributes ==
    \A attrs \in RequestRecords :
        /\ "headers" \in DOMAIN attrs =>
               chain.cfg.LogHeaders /\ (attrs.status >= 400 \/ chain.debug)
        /\ "request_body" \in DOMAIN attrs =>
               chain.cfg.LogBody /\ (attrs.status >= 400 \/ chain.debug)
        /\ (attrs.status < 400 /\ ~chain.debug) =>
               DOMAIN attrs \cap {"headers", "request_body"} = {}

\* a request answered 404 with debug logging disabled, logged with its
\* headers and its body
C22_Witness ==
    \E attrs \in RequestRecords :
        /\ attrs.status = 404 /\ ~chain.debug
        /\ {"headers", "request_body"} \subseteq DOMAIN attrs

\* the name is, but for the case of its letters, on the deny-list
DenyListed(name) ==
    ToLowerName(name) \in {"authorization", "cookie", "x-api-key", "x-auth-token",
                           "x-access-token", "x-csrf-token"}

\* the header maps that differ from header at most in the values of
\* deny-listed headers
SameButSecrets(header) ==
    {other \in ChainHeaders :
        /\ DOMAIN other = DOMAIN header
        /\ \A name \in DOMAIN other : ~DenyListed(name) => other[name] = header[name]}

\* C23: in a headers attribute the value of every header whose name is, but
\* for case, on the deny-list is the marker [FILTERED]; a request that
\* differs only in the values of such headers would give the same attribute.
C23_SecretsRedacted ==
    \A attrs \in RequestRecords :
        "headers" \in DOMAIN attrs =>
            /\ DOMAIN attrs.headers = DOMAIN chain.header
            /\ \A name \in DOMAIN chain.header :
                   DenyListed(name) => attrs.headers[name] = FilteredMarker
            /\ \A other \in SameButSecrets(chain.header) :
                   HeadersMap(other) = attrs.headers

\* a logged request that came with Authorization: s1 and two Accept values,
\* while a request with Authorization: s2 is possible as well
C23_Witness ==
    \E attrs \in RequestRecords :
        /\ "headers" \in DOMAIN attrs
        /\ "Authorization" \in DOMAIN chain.header
        /\ chain.header["Authorization"] = <<<<"s", "1">>>>
        /\ attrs.headers["Authorization"] = FilteredMarker
        /\ "Accept" \in DOMAIN attrs.headers
        /\ attrs.headers["Accept"] = <<"a/b", ",", " ", "c/d">>
        /\ Cardinality(SameButSecrets(chain.header)) = 2

\* the records Recovery has logged
PanicRecords ==
    {k \in DOMAIN chain.out : chain.out[k].msg = <<"Panic recovered">>}

\* C24: when a downstream handler panics, Recovery logs exactly one record,
\* at error level, with the method, the path, the client address and the
\* recovered value; the response status is 500 from then on and no
\* downstream handler runs after the one that panicked.
C24_PanicRecovered ==
    /\ chain.panicked =>
          /\ Cardinality(PanicRecords) = 1
          /\ \A k \in PanicRecords :
                 /\ chain.out[k].level = LevelError
                 /\ chain.out[k].attrs.method = chain.method
                 /\ chain.out[k].attrs.path = chain.path
                 /\ chain.out[k].attrs.client_ip = <<"1", "0", ".", "0", ".", "0", ".", "7">>
                 /\ chain.out[k].attrs.error = chain.fault
          /\ chain.status = 500
          /\ chain.aborted
          /\ chain.ran[Len(chain.ran)] = chain.failed
    /\ ~chain.panicked => PanicRecords = {}

\* the first downstream handler panicked and the request is over
C24_Witness ==
    /\ chain.pc = "done"
    /\ chain.panicked
    /\ chain.failed = "auth"
    /\ chain.ran = <<"auth">>
    /\ chain.status = 500
    /\ Cardinality(PanicRecords) = 1

----------------------------------------------------------------------------
(* SpecBoot: logger.Init, InitWithConfig and InitWithDefaults.  The        *)
(* environment of a call is what viper finds at the path of the            *)
(* configuration file and whether os.MkdirAll can create the directory of  *)
(* the log file.                                                           *)

\* parseLogLevel
parseLogLevel(levelStr) ==
    CASE levelStr = "debug" -> LevelDebug
      [] levelStr = "info" -> LevelInfo
      [] levelStr \in {"warn", "warning"} -> LevelWarn
      [] levelStr = "error" -> LevelError
      [] OTHER -> LevelInfo

\* the values setDefaults registers, as far as createLogger reads them
DefaultConfig ==
    [Level |-> "info", ConsoleEnabled |-> TRUE, ConsoleFormat |-> "color",
     FileEnabled |-> TRUE, FileFormat |-> "json", SmartFilter |-> TRUE]

\* the configurations a file may hold
FileConfigs ==
    [Level : {"debug"}, ConsoleEnabled : BOOLEAN,
     ConsoleFormat : {"color", "json"}, FileEnabled : BOOLEAN,
     FileFormat : {"json"}, SmartFilter : BOOLEAN]

\* what viper finds: no file in the search paths (only when no path is
\* given), a file it cannot read or parse (a missing file at a given path
\* is one), a file that fits the Config structure, or a file that parses
\* but does not fit it; config is what the getters of viper report for the
\* keys of the file
FileStates ==
    {[kind |-> "notfound", config |-> DefaultConfig],
     [kind |-> "unreadable", config |-> DefaultConfig]}
        \cup {[kind |-> k, config |-> cfg] :
                 k \in {"readable", "mistyped"}, cfg \in FileConfigs}

\* the files that can be met at a path
FilesAt(path) == {f \in FileStates : f.kind = "notfound" => path = ""}

\* config.LoadConfig: the configuration and whether an error is returned
LoadConfig(file) ==
    IF file.kind = "unreadable" THEN [config |-> <<>>, err |-> TRUE]
    ELSE IF file.kind = "mistyped" THEN [config |-> <<>>, err |-> TRUE]
    ELSE [config |-> <<file.config>>, err |-> FALSE]

\* the Config LoadConfigWithDefaults fills from viper.GetString, GetBool
\* and GetInt after setDefaults: a key the file has read wins over its
\* default
viperGet(file) == file.config

\* config.LoadConfigWithDefaults
LoadConfigWithDefaults(file) ==
    IF LoadConfig(file).err THEN viperGet(file) ELSE LoadConfig(file).config[1]

\* the handlers createLogger collects
ConsoleHandlers(cfg) ==
    IF cfg.ConsoleEnabled
    THEN <<[sink |-> "console", format |-> cfg.ConsoleFormat,
            filtered |-> cfg.SmartFilter, level |-> parseLogLevel(cfg.Level)]>>
    ELSE <<>>

FileHandlers(cfg) ==
    IF cfg.FileEnabled
    THEN <<[sink |-> "file", format |-> cfg.FileFormat,
            filtered |-> FALSE, level |-> parseLogLevel(cfg.Level)]>>
    ELSE <<>>

FallbackHandlers(cfg) ==
    <<[sink |-> "console", format |-> "color", filtered |-> FALSE,
       level |-> parseLogLevel(cfg.Level)]>>

\* createLogger: the logger, here the list of its handlers, and whether an
\* error is returned
createLogger(cfg, mkdirFails) ==
    LET handlers == ConsoleHandlers(cfg) \o FileHandlers(cfg)
    IN  IF cfg.FileEnabled /\ mkdirFails THEN [logger |-> <<>>, err |-> TRUE]
        ELSE [logger |-> IF Len(handlers) = 0 THEN FallbackHandlers(cfg) ELSE handlers,
              err |-> FALSE]

BootFrame ==
    /\ UNCHANGED filterVars
    /\ UNCHANGED concVars
    /\ UNCHANGED multiVars
    /\ UNCHANGED colorVars
    /\ UNCHANGED <<mw, chain, call, gated, render>>

\* the globals before the first call: no configuration, no logger, the
\* default logger of log/slog
BootStart ==
    [pc |-> "idle", fn |-> "none", path |-> "", file |-> [kind |-> "missing"],
     mkdirFails |-> FALSE, GlobalConfig |-> <<>>, GlobalLogger |-> <<>>,
     Default |-> <<>>, ginRedirected |-> FALSE, ret |-> "none",
     prevLogger |-> <<>>, prevDefault |-> <<>>]

\* a bug to compare with: the configuration is stored after createLogger
\* succeeded
Deferred_AfterInitWithConfig(b, fn, path, file, mkdirFails) ==
    LET loaded == LoadConfig(file)
        cfg    == IF loaded.err THEN LoadConfigWithDefaults(file) ELSE loaded.config[1]
        made   == createLogger(cfg, mkdirFails)
    IN  [b EXCEPT
            !.pc = "done", !.fn = fn, !.path = path, !.file = file,
            !.mkdirFails = mkdirFails,
            !.prevLogger = b.GlobalLogger, !.prevDefault = b.Default,
            !.GlobalConfig = IF made.err THEN @ ELSE <<cfg>>,
            !.GlobalLogger = IF made.err THEN @ ELSE <<made.logger>>,
            !.Default = IF made.err THEN @ ELSE <<made.logger>>,
            !.ginRedirected = IF made.err THEN @ ELSE (@ \/ cfg.SmartFilter),
            !.ret = IF made.err THEN "err" ELSE "nil"]

\* the body of InitWithConfig on the globals b
AfterInitWithConfig(b, fn, path, file, mkdirFails) ==
    LET loaded == LoadConfig(file)
        cfg    == IF loaded.err THEN LoadConfigWithDefaults(file) ELSE loaded.config[1]
        made   == createLogger(cfg, mkdirFails)
    IN  [b EXCEPT
            !.pc = "done", !.fn = fn, !.path = path, !.file = file,
            !.mkdirFails = mkdirFails,
            !.prevLogger = b.GlobalLogger, !.prevDefault = b.Default,
            !.GlobalConfig = <<cfg>>,
            !.GlobalLogger = IF made.err THEN @ ELSE <<made.logger>>,
            !.Default = IF made.err THEN @ ELSE <<made.logger>>,
            !.ginRedirected = IF made.err THEN @ ELSE (@ \/ cfg.SmartFilter),
            !.ret = IF made.err THEN "err" ELSE "nil"]

\* InitWithConfig(configPath)
InitWithConfig(configPath, file, mkdirFails) ==
    /\ file \in FilesAt(configPath)
    /\ boot' = AfterInitWithConfig(boot, "InitWithConfig", configPath, file, mkdirFails)
    /\ BootFrame

\* Init(configPath...): the path of the call, configs/logger.yaml if there
\* is none or it is empty
Init_logger(configPath, file, mkdirFails) ==
    /\ file \in FilesAt("configs/logger.yaml")
    /\ LET path == IF Len(configPath) > 0 /\ configPath[1] # ""
                   THEN configPath[1] ELSE "configs/logger.yaml"
       IN  boot' = AfterInitWithConfig(boot, "Init", path, file, mkdirFails)
    /\ BootFrame

\* InitWithDefaults: LoadConfigWithDefaults("") looks for logger.yaml in the
\* search paths
InitWithDefaults(file, mkdirFails) ==
    /\ file \in FilesAt("")
    /\ LET cfg  == LoadConfigWithDefaults(file)
           made == createLogger(cfg, mkdirFails)
       IN  boot' = [boot EXCEPT
                !.pc = "done", !.fn = "InitWithDefaults", !.path = "", !.file = file,
                !.mkdirFails = mkdirFails,
                !.prevLogger = boot.GlobalLogger, !.prevDefault = boot.Default,
                !.GlobalConfig = <<cfg>>,
                !.GlobalLogger = IF made.err THEN @ ELSE <<made.logger>>,
                !.Default = IF made.err THEN @ ELSE <<made.logger>>,
                !.ret = IF made.err THEN "err" ELSE "nil"]
    /\ BootFrame

InitBoot ==
    /\ InitFilter(PipelineFilter("color", LevelInfo))
    /\ IdleConc /\ IdleMulti /\ IdleColor /\ IdleMw
    /\ chain = NoChain /\ call = NoCall_utils /\ gated = {} /\ render = NoRender
    /\ boot = BootStart

ConfigPaths == {<<>>, <<"">>, <<"conf/app.yaml">>}

NextBoot ==
    \/ \E p \in ConfigPaths, f \in FileStates, m \in BOOLEAN : Init_logger(p, f, m)
    \/ \E p \in {"", "conf/app.yaml"}, f \in FileStates, m \in BOOLEAN :
          InitWithConfig(p, f, m)
    \/ \E f \in FileStates, m \in BOOLEAN : InitWithDefaults(f, m)

SpecBoot == InitBoot /\ [][NextBoot]_vars

\* C25: Init and InitWithConfig return an error only when createLogger
\* fails, that is when the directory of the log file cannot be created; a
\* configuration file that is missing, unreadable or malformed is replaced
\* by the built-in defaults, and when createLogger succeeds the call
\* returns nil and the global logger and the default logger are the new one.
C25_ErrorOnlyFromSink ==
    boot.fn \in {"Init", "InitWithConfig"} =>
        /\ boot.ret = "err" =>
               boot.mkdirFails /\ boot.GlobalConfig[1].FileEnabled
        /\ boot.file.kind # "readable" => boot.GlobalConfig = <<DefaultConfig>>
        /\ ~(boot.mkdirFails /\ boot.GlobalConfig[1].FileEnabled) =>
               /\ boot.ret = "nil"
               /\ boot.GlobalLogger # <<>>
               /\ boot.Default = boot.GlobalLogger

\* C39: when createLogger fails, InitWithConfig and InitWithDefaults return
\* the error with the global logger and the default logger of log/slog as
\* they were before the call, and with the global configuration already
\* replaced by the one the call loaded.
C39_FailureKeepsLoggers ==
    (boot.fn \in {"InitWithConfig", "InitWithDefaults"} /\ boot.ret = "err") =>
        /\ boot.GlobalLogger = boot.prevLogger
        /\ boot.Default = boot.prevDefault
        /\ boot.GlobalConfig = <<boot.file.config>>
        /\ boot.GlobalConfig[1].FileEnabled

\* a failed call after a successful one: the logger installed is not the one
\* of the configuration now stored
C39_Witness ==
    /\ boot.fn \in {"InitWithConfig", "InitWithDefaults"} /\ boot.ret = "err"
    /\ boot.prevLogger # <<>>
    /\ boot.GlobalLogger = boot.prevLogger
    /\ createLogger(boot.GlobalConfig[1], FALSE).logger # boot.GlobalLogger[1]

----------------------------------------------------------------------------
(* SpecUtils: the functions of package utils, called once on an input      *)
(* under a global configuration that is nil or loaded.  config is <<>>     *)
(* for nil and <<c>> for the loaded configuration c.                       *)

\* strings.Repeat
Repeat(ch, count) == [k \in 1 .. count |-> ch]

\* the number of occurrences of ch in str
Count(str, ch) == Cardinality({k \in DOMAIN str : str[k] = ch})

\* a bug to compare with: without a configuration nothing is transformed
NilIsOff_Disabled(config, toggle) == Len(config) = 0 \/ ~config[1][toggle]

\* config.GlobalConfig != nil && !config.GlobalConfig.Logger.Features.Privacy.X
Disabled(config, toggle) == Len(config) > 0 /\ ~config[1][toggle]

\* maskString
maskString(s) ==
    IF Len(s) <= 2 THEN Repeat("*", Len(s))
    ELSE IF Len(s) <= 4 THEN SubSeq(s, 1, 1) \o Repeat("*", Len(s) - 1)
    ELSE SubSeq(s, 1, 2) \o Repeat("*", Len(s) - 4) \o SubSeq(s, Len(s) - 1, Len(s))

\* a bug to compare with: a user name of 3 or 4 characters gets as many
\* stars as it has characters after the second
Exact_MaskEmail(config, email) ==
    IF email = <<>> THEN <<>>
    ELSE IF Disabled(config, "EnableEmailMask") THEN email
    ELSE LET parts == Split(email, "@")
         IN  IF Len(parts) # 2 THEN maskString(email)
             ELSE LET username == parts[1]
                      domain   == parts[2]
                  IN  IF Len(username) <= 2 THEN username \o <<"@">> \o domain
                      ELSE SubSeq(username, 1, 2) \o Repeat("*", Len(username) - 2)
                               \o <<"@">> \o domain

\* MaskEmail
MaskEmail(config, email) ==
    IF email = <<>> THEN <<>>
    ELSE IF Disabled(config, "EnableEmailMask") THEN email
    ELSE LET parts == Split(email, "@")
         IN  IF Len(parts) # 2 THEN maskString(email)
             ELSE LET username == parts[1]
                      domain   == parts[2]
                  IN  IF Len(username) <= 2 THEN username \o <<"@">> \o domain
                      ELSE IF Len(username) <= 4
                      THEN SubSeq(username, 1, 2) \o <<"*", "*", "@">> \o domain
                      ELSE SubSeq(username, 1, 2) \o Repeat("*", Len(username) - 2)
                               \o <<"@">> \o domain

\* a bug to compare with: the branch for short numbers is missing
Long_MaskPhone(config, phone) ==
    IF phone = <<>> THEN <<>>
    ELSE IF Disabled(config, "EnablePhoneMask") THEN phone
    ELSE IF Len(phone) = 11 /\ ~HasPrefix(phone, <<"+">>)
    THEN SubSeq(phone, 1, 3) \o <<"*", "*", "*", "*">> \o SubSeq(phone, 8, Len(phone))
    ELSE IF HasPrefix(phone, <<"+">>) /\ Len(phone) > 10
    THEN SubSeq(phone, 1, 3) \o <<"*", "*", "*", "*">>
             \o SubSeq(phone, Len(phone) - 3, Len(phone))
    ELSE IF Len(phone) <= 4 THEN maskString(phone)
    ELSE SubSeq(phone, 1, 2) \o Repeat("*", Len(phone) - 4)
             \o SubSeq(phone, Len(phone) - 1, Len(phone))

\* MaskPhone
MaskPhone(config, phone) ==
    IF phone = <<>> THEN <<>>
    ELSE IF Disabled(config, "EnablePhoneMask") THEN phone
    ELSE IF Len(phone) < 7
    THEN IF Len(phone) <= 2 THEN Repeat("*", Len(phone))
         ELSE IF Len(phone) <= 4
         THEN SubSeq(phone, 1, 2) \o Repeat("*", Len(phone) - 2)
         ELSE SubSeq(phone, 1, 2) \o <<"*", "*", "*">>
    ELSE IF Len(phone) = 11 /\ ~HasPrefix(phone, <<"+">>)
    THEN SubSeq(phone, 1, 3) \o <<"*", "*", "*", "*">> \o SubSeq(phone, 8, Len(phone))
    ELSE IF HasPrefix(phone, <<"+">>) /\ Len(phone) > 10
    THEN SubSeq(phone, 1, 3) \o <<"*", "*", "*", "*">>
             \o SubSeq(phone, Len(phone) - 3, Len(phone))
    ELSE IF Len(phone) <= 4 THEN maskString(phone)
    ELSE SubSeq(phone, 1, 2) \o Repeat("*", Len(phone) - 4)
             \o SubSeq(phone, Len(phone) - 1, Len(phone))

\* strings.ReplaceAll(str, old, new) for an old of one character: the
\* halves of the text are replaced one by one
RECURSIVE ReplaceAll(_, _, _)
ReplaceAll(str, old, new) ==
    IF Len(str) = 0 THEN <<>>
    ELSE IF Len(str) = 1 THEN (IF str[1] = old THEN new ELSE str)
    ELSE LET half == Len(str) \div 2
         IN  ReplaceAll(SubSeq(str, 1, half), old, new)
                 \o ReplaceAll(SubSeq(str, half + 1, Len(str)), old, new)

SanitizeLimit == 1000

\* "...(truncated)"
SanitizeMarker ==
    <<".", ".", ".", "(", "t", "r", "u", "n", "c", "a", "t", "e", "d", ")">>

\* a bug to compare with: the text is cut before the characters are replaced
CutFirst_SanitizeUserInput(config, input) ==
    IF Disabled(config, "EnableInputSanitize") THEN input
    ELSE LET cut == IF Len(input) > SanitizeLimit
                    THEN SubSeq(input, 1, SanitizeLimit) \o SanitizeMarker
                    ELSE input
         IN  ReplaceAll(ReplaceAll(ReplaceAll(cut, "\n", <<"\\", "n">>),
                                   "\r", <<"\\", "r">>),
                        "\t", <<"\\", "t">>)

\* SanitizeUserInput
SanitizeUserInput(config, input) ==
    IF Disabled(config, "EnableInputSanitize") THEN input
    ELSE LET replaced ==
                 ReplaceAll(ReplaceAll(ReplaceAll(input, "\n", <<"\\", "n">>),
                                       "\r", <<"\\", "r">>),
                            "\t", <<"\\", "t">>)
         IN  IF Len(replaced) > SanitizeLimit
             THEN SubSeq(replaced, 1, SanitizeLimit) \o SanitizeMarker
             ELSE replaced

UtilsFrame ==
    /\ UNCHANGED filterVars
    /\ UNCHANGED concVars
    /\ UNCHANGED multiVars
    /\ UNCHANGED colorVars
    /\ UNCHANGED <<mw, chain, boot, gated, render>>

\* one call of fn on input, with its result
UtilsCall(fn, input, output) ==
    /\ call.fn = "none"
    /\ call' = [call EXCEPT !.fn = fn, !.input = input, !.output = output]
    /\ UtilsFrame

CallMaskEmail(email) == UtilsCall("MaskEmail", email, MaskEmail(call.config, email))

CallMaskPhone(phone) == UtilsCall("MaskPhone", phone, MaskPhone(call.config, phone))

CallSanitizeUserInput(input) ==
    UtilsCall("SanitizeUserInput", input, SanitizeUserInput(call.config, input))

CallGetClientIP(header, remoteAddr) ==
    UtilsCall("GetClientIP", [header |-> header, remoteAddr |-> remoteAddr],
           GetClientIP(header, remoteAddr))

\* the texts of the model are made by repeating a base text
Cycle(base, count) == [k \in 1 .. count |-> base[((k - 1) % Len(base)) + 1]]

ExampleDomain == <<"e", "x", "a", "m", "p", "l", "e", ".", "c", "o", "m">>

\* user names of every length up to MaxLocal before @example.com, and
\* texts with no @, with two, and with nothing after it
EmailInputs ==
    {Cycle(<<"t", "e", "s", "t">>, n) \o <<"@">> \o ExampleDomain : n \in 0 .. MaxLocal}
        \cup {Cycle(<<"i", "n", "v", "a", "l", "i", "d", "-">>, n) : n \in 0 .. MaxLocal}
        \cup {<<"a", "@", "b", "@", "c">>, <<"t", "e", "s", "@">>}

\* numbers of every length up to MaxPhone, with and without a leading +
PhoneInputs ==
    {Cycle(<<"1", "3", "8", "1", "2", "3", "4", "5", "6", "7", "8">>, n) :
        n \in 0 .. MaxPhone}
        \cup {<<"+">> \o Cycle(<<"8", "6", "1", "3", "8", "1", "2", "3", "4", "5", "6",
                                 "7", "8">>, n) : n \in 0 .. MaxPhone - 1}

\* texts around the limit of SanitizeUserInput, plain or with characters
\* to replace at their start or their end
SanitizeLengths ==
    {0, 3, SanitizeLimit + 500}
        \cup {SanitizeLimit + d : d \in (0 - MaxSlack) .. MaxSlack}

SanitizeAffixes ==
    {<<>>, <<"\n">>, <<"x", "\t", "y", "\r">>, Repeat("\n", 2 * Len(SanitizeMarker))}

SanitizeInputs ==
    {p \o Repeat("a", n) : p \in SanitizeAffixes, n \in SanitizeLengths}
        \cup {Repeat("a", n) \o p : p \in SanitizeAffixes, n \in SanitizeLengths}

\* config.GlobalConfig: nil, or loaded with its three privacy toggles
UtilConfigs ==
    {<<>>} \cup {<<c>> : c \in [EnableEmailMask : BOOLEAN, EnablePhoneMask : BOOLEAN,
                               EnableInputSanitize : BOOLEAN]}

\* the headers GetClientIP reads, each absent or with one of a few values
ForwardedValues ==
    {<<<<"1", ".", "2", ".", "3", ".", "4", ",", " ", "9", ".", "9", ".", "9", ".", "9">>>>,
     <<<<" ", "1", ".", "2", ".", "3", ".", "4", " ">>>>,
     <<<<"b", "a", "d", ",", "1", ".", "2", ".", "3", ".", "4">>>>,
     <<<<"2", "5", "6", ".", "1", ".", "1", ".", "1">>>>}

RealIPValues ==
    {<<<<"5", ".", "6", ".", "7", ".", "8">>>>,
     <<<<"5", ".", "6", ".", "7">>>>,
     <<<<":", ":", "1">>>>}

ConnectingIPValues ==
    {<<<<"2", "5", "5", ".", "0", ".", "0", ".", "1">>>>,
     <<<<"0", "1", ".", "2", ".", "3", ".", "4">>>>}

ClientHeaders ==
    {a @@ b @@ c :
        a \in OptionalHeader("X-Forwarded-For", ForwardedValues),
        b \in OptionalHeader("X-Real-Ip", RealIPValues),
        c \in OptionalHeader("Cf-Connecting-Ip", ConnectingIPValues)}

RemoteAddrs ==
    {<<"1", "0", ".", "0", ".", "0", ".", "7", ":", "8", "0">>,
     <<"1", "0", ".", "0", ".", "0", ".", "7">>}

InitUtils ==
    /\ InitFilter(PipelineFilter("color", LevelInfo))
    /\ IdleConc /\ IdleMulti /\ IdleColor /\ IdleMw
    /\ chain = NoChain /\ boot = NoBoot /\ gated = {} /\ render = NoRender
    /\ \E config \in UtilConfigs :
          call = [fn |-> "none", config |-> config, input |-> <<>>, output |-> <<>>]

NextUtils ==
    \/ \E email \in EmailInputs : CallMaskEmail(email)
    \/ \E phone \in PhoneInputs : CallMaskPhone(phone)
    \/ \E input \in SanitizeInputs : CallSanitizeUserInput(input)
    \/ \E header \in ClientHeaders, addr \in RemoteAddrs : CallGetClientIP(header, addr)

SpecUtils == InitUtils /\ [][NextUtils]_vars

\* the toggle of the loaded configuration
Toggle(name) == call.config[1][name]

Min(a, b) == IF a <= b THEN a ELSE b

\* C26: MaskEmail returns its input unchanged when email masking is
\* disabled; when it is enabled and the input has exactly one @, the result
\* is the first two characters of the user name, then no star for a user
\* name of at most 2 characters, two stars for one of 3 or 4 and length - 2
\* stars for a longer one, then @ and the domain; test@example.com gives
\* te**@example.com, and the empty string gives the empty string.
C26_MaskEmail ==
    call.fn = "MaskEmail" =>
        /\ call.input = <<>> => call.output = <<>>
        /\ (call.config # <<>> /\ ~Toggle("EnableEmailMask")) => call.output = call.input
        /\ (call.config # <<>> /\ Toggle("EnableEmailMask")
               /\ Count(call.input, "@") = 1) =>
              LET at     == Index(call.input, "@")
                  local  == SubSeq(call.input, 1, at - 1)
                  domain == SubSeq(call.input, at + 1, Len(call.input))
                  stars  == IF Len(local) <= 2 THEN 0
                            ELSE IF Len(local) <= 4 THEN 2
                            ELSE Len(local) - 2
              IN  /\ Len(call.output) = Min(2, Len(local)) + stars + 1 + Len(domain)
                  /\ \A k \in DOMAIN call.output :
                        call.output[k] =
                            IF k <= Min(2, Len(local)) THEN local[k]
                            ELSE IF k <= Min(2, Len(local)) + stars THEN "*"
                            ELSE IF k = Min(2, Len(local)) + stars + 1 THEN "@"
                            ELSE domain[k - Min(2, Len(local)) - stars - 1]

\* MaskEmail("test@example.com") with masking enabled
C26_Witness ==
    /\ call.fn = "MaskEmail"
    /\ call.config # <<>> /\ Toggle("EnableEmailMask")
    /\ call.input = <<"t", "e", "s", "t", "@">> \o ExampleDomain
    /\ call.output = <<"t", "e", "*", "*", "@">> \o ExampleDomain

\* the number of characters of the input that the output has kept at
\* their place from the start
RECURSIVE KeptFrom(_, _, _)
KeptFrom(input, output, k) ==
    IF k > Len(input) \/ k > Len(output) \/ input[k] # output[k] \/ output[k] = "*"
    THEN k - 1
    ELSE KeptFrom(input, output, k + 1)

\* C27: with phone masking enabled MaskPhone turns a number of 11
\* characters without a leading + and a number with a leading + of more
\* than 10 characters into its first 3 characters, ****, and its last 4;
\* from a number of fewer than 7 characters it keeps at most the first 2;
\* every result for a non-empty number has a star.  With phone masking
\* disabled it returns the number unchanged.
C27_MaskPhone ==
    (call.fn = "MaskPhone" /\ call.config # <<>>) =>
        LET phone == call.input
            out   == call.output
            plus  == Len(phone) > 0 /\ phone[1] = "+"
        IN  IF ~Toggle("EnablePhoneMask") THEN out = phone
            ELSE /\ ((Len(phone) = 11 /\ ~plus) \/ (plus /\ Len(phone) > 10)) =>
                       /\ Len(out) = 11
                       /\ \A k \in 1 .. 3 : out[k] = phone[k]
                       /\ \A k \in 4 .. 7 : out[k] = "*"
                       /\ \A k \in 1 .. 4 : out[7 + k] = phone[Len(phone) - 4 + k]
                 /\ Len(phone) < 7 =>
                       /\ KeptFrom(phone, out, 1) <= 2
                       /\ \A k \in DOMAIN out : k > 2 => out[k] = "*"
                 /\ Len(phone) > 0 => Count(out, "*") >= 1

\* MaskPhone("+8613812345678") with masking enabled
C27_Witness ==
    /\ call.fn = "MaskPhone"
    /\ call.config # <<>> /\ Toggle("EnablePhoneMask")
    /\ call.input = <<"+", "8", "6", "1", "3", "8", "1", "2", "3", "4", "5", "6", "7", "8">>
    /\ call.output = <<"+", "8", "6", "*", "*", "*", "*", "5", "6", "7", "8">>

\* C28: with sanitizing enabled the result of SanitizeUserInput has no
\* newline, carriage return or tab and at most 1000 characters plus those
\* of the marker, 1014 in all; an input without such a character and of at
\* most 1000 characters is returned unchanged.  With sanitizing disabled
\* every input is returned unchanged.
C28_Sanitized ==
    (call.fn = "SanitizeUserInput" /\ call.config # <<>>) =>
        IF ~Toggle("EnableInputSanitize") THEN call.output = call.input
        ELSE /\ \A k \in DOMAIN call.output : call.output[k] \notin {"\n", "\r", "\t"}
             /\ Len(call.output) <= 1014
             /\ Len(call.output) <= 1000 + Len(SanitizeMarker)
             /\ ((\A k \in DOMAIN call.input : call.input[k] \notin {"\n", "\r", "\t"})
                    /\ Len(call.input) <= 1000) => call.output = call.input

\* a text of 1000 characters and a newline, cut to 1014 characters
C28_Witness ==
    /\ call.fn = "SanitizeUserInput"
    /\ call.config # <<>> /\ Toggle("EnableInputSanitize")
    /\ Len(call.input) = 1001
    /\ call.input[1001] = "\n"
    /\ Len(call.output) = 1014
    /\ call.output[1000] = "a"

\* the texts of the model that are IP addresses
KnownAddresses ==
    {<<"1", ".", "2", ".", "3", ".", "4">>, <<"9", ".", "9", ".", "9", ".", "9">>,
     <<"5", ".", "6", ".", "7", ".", "8">>, <<":", ":", "1">>,
     <<"2", "5", "5", ".", "0", ".", "0", ".", "1">>,
     <<"1", "0", ".", "0", ".", "0", ".", "7">>}

\* the candidates of a request in their order of priority, <<>> for a
\* header that is absent
Candidates(header) ==
    <<IF "X-Forwarded-For" \in DOMAIN header
      THEN TrimSpace(Split(header["X-Forwarded-For"][1], ",")[1]) ELSE <<>>,
      IF "X-Real-Ip" \in DOMAIN header THEN header["X-Real-Ip"][1] ELSE <<>>,
      IF "Cf-Connecting-Ip" \in DOMAIN header THEN header["Cf-Connecting-Ip"][1] ELSE <<>>>>

\* C29: GetClientIP returns the first of the candidates (first entry of
\* X-Forwarded-For, X-Real-IP, CF-Connecting-IP) that is present and is an
\* IP address, and the host of the peer address if there is none; it never
\* returns a header value that is not an IP address, and never a candidate
\* while one of higher priority is an IP address.
C29_ClientIP ==
    call.fn = "GetClientIP" =>
        LET cands   == Candidates(call.input.header)
            good(k) == cands[k] # <<>> /\ cands[k] \in KnownAddresses
            colon   == Index(call.input.remoteAddr, ":")
            host    == IF colon = 0 THEN call.input.remoteAddr
                       ELSE SubSeq(call.input.remoteAddr, 1, colon - 1)
        IN  /\ \A k \in 1 .. 3 :
                   (good(k) /\ \A j \in 1 .. k - 1 : ~good(j)) => call.output = cands[k]
            /\ (\A k \in 1 .. 3 : ~good(k)) => call.output = host
            /\ \A name \in DOMAIN call.input.header :
                   call.input.header[name][1] \notin KnownAddresses
                       => call.output # call.input.header[name][1]
            /\ \A k \in 1 .. 3 :
                   (good(k) /\ k > 1 /\ call.output = cands[k])
                       => \A j \in 1 .. k - 1 : ~good(j) \/ cands[j] = cands[k]

\* X-Forwarded-For begins with a text that is no address, X-Real-IP and
\* CF-Connecting-IP are addresses: X-Real-IP is returned
C29_Witness ==
    /\ call.fn = "GetClientIP"
    /\ DOMAIN call.input.header = {"X-Forwarded-For", "X-Real-Ip", "Cf-Connecting-Ip"}
    /\ Candidates(call.input.header)[1] = <<"b", "a", "d">>
    /\ Candidates(call.input.header)[3] = <<"2", "5", "5", ".", "0", ".", "0", ".", "1">>
    /\ call.output = <<"5", ".", "6", ".", "7", ".", "8">>

\* a loaded configuration with every privacy toggle on
AllOn ==
    <<[EnableEmailMask |-> TRUE, EnablePhoneMask |-> TRUE, EnableInputSanitize |-> TRUE]>>

\* what the function of the last call returns on its input under config
Applied(config) ==
    CASE call.fn = "MaskEmail" -> MaskEmail(config, call.input)
      [] call.fn = "MaskPhone" -> MaskPhone(config, call.input)
      [] call.fn = "SanitizeUserInput" -> SanitizeUserInput(config, call.input)

\* the privacy toggle the function of the last call reads
ToggleOf ==
    CASE call.fn = "MaskEmail" -> "EnableEmailMask"
      [] call.fn = "MaskPhone" -> "EnablePhoneMask"
      [] call.fn = "SanitizeUserInput" -> "EnableInputSanitize"

\* C36: while no configuration is loaded MaskEmail, MaskPhone and
\* SanitizeUserInput return what they return with their toggle on; with a
\* configuration loaded and the toggle off they return the input; an input
\* the transformation would change comes back unchanged only in that case.
C36_NilConfigTransforms ==
    call.fn \in {"MaskEmail", "MaskPhone", "SanitizeUserInput"} =>
        /\ call.config = <<>> => call.output = Applied(AllOn)
        /\ (call.config # <<>> /\ ~Toggle(ToggleOf)) => call.output = call.input
        /\ (call.output = call.input /\ Applied(AllOn) # call.input)
              => (call.config # <<>> /\ ~Toggle(ToggleOf))

\* MaskEmail("test@example.com") before any configuration is loaded
C36_Witness ==
    /\ call.fn = "MaskEmail"
    /\ call.config = <<>>
    /\ call.input = <<"t", "e", "s", "t", "@">> \o ExampleDomain
    /\ call.output = <<"t", "e", "*", "*", "@">> \o ExampleDomain

----------------------------------------------------------------------------
(* The highlight pass of the ColorHandler.  A message is the sequence of   *)
(* its characters; "ESC" stands for the escape character.  A regular       *)
(* expression is modelled by the length of its match at a position of the  *)
(* text, 0 if it does not match there, and ReplaceAllStringFunc by a scan  *)
(* from left to right.                                                     *)

LowerLetters ==
    {"a", "b", "c", "d", "e", "f", "g", "h", "i", "j", "k", "l", "m", "n", "o", "p",
     "q", "r", "s", "t", "u", "v", "w", "x", "y", "z"}

UpperLetters ==
    {"A", "B", "C", "D", "E", "F", "G", "H", "I", "J", "K", "L", "M", "N", "O", "P",
     "Q", "R", "S", "T", "U", "V", "W", "X", "Y", "Z"}

\* (?i): the lower-case form of a character
ToLowerCh(ch) ==
    CASE ch = "A" -> "a" [] ch = "B" -> "b" [] ch = "C" -> "c" [] ch = "D" -> "d"
      [] ch = "E" -> "e" [] ch = "F" -> "f" [] ch = "G" -> "g" [] ch = "H" -> "h"
      [] ch = "I" -> "i" [] ch = "J" -> "j" [] ch = "K" -> "k" [] ch = "L" -> "l"
      [] ch = "M" -> "m" [] ch = "N" -> "n" [] ch = "O" -> "o" [] ch = "P" -> "p"
      [] ch = "Q" -> "q" [] ch = "R" -> "r" [] ch = "S" -> "s" [] ch = "T" -> "t"
      [] ch = "U" -> "u" [] ch = "V" -> "v" [] ch = "W" -> "w" [] ch = "X" -> "x"
      [] ch = "Y" -> "y" [] ch = "Z" -> "z" [] OTHER -> ch

\* \w
WordChar(ch) == ch \in LowerLetters \cup UpperLetters \cup Digits \cup {"_"}

\* \s
SpaceChar(ch) == ch \in {" ", "\t", "\n", "\r"}

\* the character at position k is a word character
WordAt(str, k) == k \in DOMAIN str /\ WordChar(str[k])

\* \b just before position k
Boundary(str, k) == WordAt(str, k - 1) # WordAt(str, k)

\* the length of the run of digits that begins at position k
RECURSIVE DigitRun(_, _)
DigitRun(str, k) ==
    IF k \in DOMAIN str /\ str[k] \in Digits THEN 1 + DigitRun(str, k + 1) ELSE 0

\* the literal lit stands at position k
LiteralAt(str, k, lit) ==
    k + Len(lit) - 1 <= Len(str) /\ SubSeq(str, k, k + Len(lit) - 1) = lit

\* keywordColors: the keywords of each colour
keywordColors ==
    LET
        SuccessKeywords ==
            {<<"s", "u", "c", "c", "e", "s", "s">>,
             <<"s", "u", "c", "c", "e", "s", "s", "f", "u", "l", "l", "y">>,
             <<"l", "o", "a", "d", "e", "d">>, <<"c", "o", "m", "p", "l", "e", "t", "e", "d">>,
             <<"e", "s", "t", "a", "b", "l", "i", "s", "h", "e", "d">>,
             <<"i", "n", "i", "t", "i", "a", "l", "i", "z", "e", "d">>,
             <<"e", "n", "a", "b", "l", "e", "d">>, <<"o", "k">>,
             <<"f", "i", "n", "i", "s", "h", "e", "d">>,
             <<"r", "e", "s", "o", "l", "v", "e", "d">>, <<"f", "o", "u", "n", "d">>,
             <<"t", "r", "u", "e">>, <<"c", "o", "n", "n", "e", "c", "t", "e", "d">>}
        FailureKeywords ==
            {<<"e", "r", "r", "o", "r">>, <<"f", "a", "i", "l", "e", "d">>,
             <<"f", "a", "i", "l">>, <<"i", "n", "v", "a", "l", "i", "d">>,
             <<"u", "n", "a", "b", "l", "e">>, <<"c", "a", "n", "n", "o", "t">>,
             <<"d", "e", "n", "i", "e", "d">>, <<"r", "e", "j", "e", "c", "t", "e", "d">>,
             <<"t", "i", "m", "e", "o", "u", "t">>, <<"p", "a", "n", "i", "c">>,
             <<"f", "a", "l", "s", "e">>,
             <<"d", "i", "s", "c", "o", "n", "n", "e", "c", "t", "e", "d">>,
             <<"c", "r", "a", "s", "h", "e", "d">>}
        WarningKeywords ==
            {<<"w", "a", "r", "n">>, <<"w", "a", "r", "n", "i", "n", "g">>,
             <<"d", "e", "p", "r", "e", "c", "a", "t", "e", "d">>,
             <<"f", "a", "l", "l", "b", "a", "c", "k">>,
             <<"s", "k", "i", "p", "p", "i", "n", "g">>, <<"m", "i", "s", "s", "i", "n", "g">>,
             <<"e", "m", "p", "t", "y">>, <<"i", "g", "n", "o", "r", "e", "d">>,
             <<"r", "e", "t", "r", "y", "i", "n", "g">>}
        ActionKeywords ==
            {<<"i", "n", "f", "o">>, <<"r", "e", "q", "u", "e", "s", "t">>,
             <<"r", "e", "s", "p", "o", "n", "s", "e">>,
             <<"s", "t", "a", "r", "t", "i", "n", "g">>,
             <<"s", "t", "o", "p", "p", "i", "n", "g">>,
             <<"c", "o", "n", "n", "e", "c", "t", "i", "n", "g">>,
             <<"s", "e", "n", "d", "i", "n", "g">>,
             <<"r", "e", "c", "e", "i", "v", "i", "n", "g">>,
             <<"p", "r", "o", "c", "e", "s", "s", "i", "n", "g">>}
        MethodKeywords ==
            {<<"g", "e", "t">>, <<"p", "o", "s", "t">>, <<"p", "u", "t">>,
             <<"d", "e", "l", "e", "t", "e">>, <<"p", "a", "t", "c", "h">>}
        SubjectKeywords ==
            {<<"d", "e", "b", "u", "g">>, <<"p", "a", "r", "s", "i", "n", "g">>,
             <<"g", "e", "n", "e", "r", "a", "t", "i", "n", "g">>,
             <<"w", "r", "i", "t", "i", "n", "g">>, <<"r", "e", "a", "d", "i", "n", "g">>,
             <<"d", "a", "t", "a", "b", "a", "s", "e">>, <<"c", "a", "c", "h", "e">>,
             <<"r", "o", "u", "t", "e", "r">>, <<"s", "e", "r", "v", "e", "r">>,
             <<"c", "l", "i", "e", "n", "t">>, <<"u", "s", "e", "r">>,
             <<"s", "e", "s", "s", "i", "o", "n">>}
    IN
        [w \in SuccessKeywords |-> <<"9", "2">>] @@ [w \in FailureKeywords |-> <<"9", "1">>]
            @@ [w \in WarningKeywords |-> <<"9", "3">>] @@ [w \in ActionKeywords |-> <<"9", "4">>]
            @@ [w \in MethodKeywords |-> <<"9", "6">>] @@ [w \in SubjectKeywords |-> <<"9", "5">>]

\* strings.ToLower of a text / (?i)
ToLowerStr(str) == [k \in DOMAIN str |-> ToLowerCh(str[k])]

\* a bug to compare with: a keyword is found inside a longer word
Inside_KeywordsAt(str, k) ==
    {kw \in DOMAIN keywordColors : LiteralAt(ToLowerStr(str), k, kw)}

\* keywordRegexes, (?i)\bkeyword\b: the keywords that match at position k
KeywordsAt(str, k) ==
    {kw \in DOMAIN keywordColors :
        /\ Boundary(str, k)
        /\ LiteralAt(ToLowerStr(str), k, kw)
        /\ Boundary(str, k + Len(kw))}

MatchKeyword(str, k) ==
    IF KeywordsAt(str, k) = {} THEN 0 ELSE Len(CHOOSE kw \in KeywordsAt(str, k) : TRUE)

\* (ms|s|MB|KB|GB)?\b at position q: the length of the unit, 0 without
\* unit, -1 if the expression cannot end here
Units == <<<<"m", "s">>, <<"s">>, <<"M", "B">>, <<"K", "B">>, <<"G", "B">>>>

RECURSIVE UnitFrom(_, _, _)
UnitFrom(str, q, u) ==
    IF u > Len(Units) THEN (IF Boundary(str, q) THEN 0 ELSE -1)
    ELSE IF LiteralAt(str, q, Units[u]) /\ Boundary(str, q + Len(Units[u]))
    THEN Len(Units[u])
    ELSE UnitFrom(str, q, u + 1)

\* numericRegex, \b\d+(\.\d+)?(ms|s|MB|KB|GB)?\b: the digits, then the
\* fraction if the rest matches after it, the digits alone otherwise
MatchNumeric(str, k) ==
    IF ~(Boundary(str, k) /\ DigitRun(str, k) > 0) THEN 0
    ELSE LET p    == k + DigitRun(str, k)
             frac == IF p \in DOMAIN str /\ str[p] = "." /\ DigitRun(str, p + 1) > 0
                     THEN 1 + DigitRun(str, p + 1) ELSE 0
         IN  IF frac > 0 /\ UnitFrom(str, p + frac, 1) >= 0
             THEN (p - k) + frac + UnitFrom(str, p + frac, 1)
             ELSE IF UnitFrom(str, p, 1) >= 0 THEN (p - k) + UnitFrom(str, p, 1)
             ELSE 0

\* [^\s]+ from position k
RECURSIVE NonSpaceRun(_, _)
NonSpaceRun(str, k) ==
    IF k \in DOMAIN str /\ ~SpaceChar(str[k]) THEN 1 + NonSpaceRun(str, k + 1) ELSE 0

\* urlRegex, https?://[^\s]+
MatchURL(str, k) ==
    LET scheme == IF LiteralAt(str, k, <<"h", "t", "t", "p", "s", ":", "/", "/">>) THEN 8
                  ELSE IF LiteralAt(str, k, <<"h", "t", "t", "p", ":", "/", "/">>) THEN 7
                  ELSE 0
    IN  IF scheme > 0 /\ NonSpaceRun(str, k + scheme) > 0
        THEN scheme + NonSpaceRun(str, k + scheme) ELSE 0

\* \d{1,3}\. repeated: the length of `groups` groups of one to three
\* digits with a dot after each but the last, 0 if they are not there
RECURSIVE OctetsFrom(_, _, _)
OctetsFrom(str, k, groups) ==
    LET n == DigitRun(str, k)
    IN  IF n \notin 1 .. 3 THEN 0
        ELSE IF groups = 1 THEN n
        ELSE IF ~(k + n \in DOMAIN str /\ str[k + n] = ".") THEN 0
        ELSE IF OctetsFrom(str, k + n + 1, groups - 1) = 0 THEN 0
        ELSE n + 1 + OctetsFrom(str, k + n + 1, groups - 1)

\* ipRegex, \b\d{1,3}\.\d{1,3}\.\d{1,3}\.\d{1,3}\b
MatchIP(str, k) ==
    IF Boundary(str, k) /\ OctetsFrom(str, k, 4) > 0
       /\ Boundary(str, k + OctetsFrom(str, k, 4))
    THEN OctetsFrom(str, k, 4) ELSE 0

MatchLen(kind, str, k) ==
    CASE kind = "keyword" -> MatchKeyword(str, k)
      [] kind = "numeric" -> MatchNumeric(str, k)
      [] kind = "url"     -> MatchURL(str, k)
      [] kind = "ip"      -> MatchIP(str, k)

\* the attributes of the colour of a match, between ESC[ and m
ColorCode(kind, match) ==
    CASE kind = "keyword" -> keywordColors[ToLowerStr(match)]
      [] kind = "numeric" -> <<"9", "7", ";", "1">>
      [] kind = "url"     -> <<"3", "6", ";", "4">>
      [] kind = "ip"      -> <<"3", "3">>

\* the colour function on a match; with color.NoColor set it returns its
\* argument
Colored(kind, match, noColor) ==
    IF noColor THEN match
    ELSE <<"ESC", "[">> \o ColorCode(kind, match) \o <<"m">> \o match
             \o <<"ESC", "[", "0", "m">>

\* ReplaceAllStringFunc from position k on
RECURSIVE ReplaceFrom(_, _, _, _)
ReplaceFrom(kind, str, k, noColor) ==
    IF k > Len(str) THEN <<>>
    ELSE IF MatchLen(kind, str, k) > 0
    THEN Colored(kind, SubSeq(str, k, k + MatchLen(kind, str, k) - 1), noColor)
             \o ReplaceFrom(kind, str, k + MatchLen(kind, str, k), noColor)
    ELSE <<str[k]>> \o ReplaceFrom(kind, str, k + 1, noColor)

\* colorize.  The expressions of two keywords never match at overlapping
\* places and the colour of one match leaves the other matches as they
\* are, so the keywords are replaced in one scan, whatever the order in
\* which the map is ranged over.
colorize(msg, enableHighlight, noColor) ==
    IF ~enableHighlight THEN msg
    ELSE ReplaceFrom("ip",
             ReplaceFrom("url",
                 ReplaceFrom("numeric",
                     ReplaceFrom("keyword", msg, 1, noColor), 1, noColor), 1, noColor),
             1, noColor)

HighlightFrame ==
    /\ UNCHANGED filterVars
    /\ UNCHANGED concVars
    /\ UNCHANGED multiVars
    /\ UNCHANGED colorVars
    /\ UNCHANGED <<mw, chain, boot, gated, render>>

\* one call of colorize on the message made of words
CallColorize(words, enableHighlight) ==
    /\ call.fn = "none"
    /\ call' = [call EXCEPT
            !.fn = "colorize",
            !.input = [words |-> words, msg |-> Join(words, <<" ">>),
                       enableHighlight |-> enableHighlight],
            !.output = colorize(Join(words, <<" ">>), enableHighlight, call.noColor)]
    /\ HighlightFrame

\* words in which the four expressions find nothing
PlainWords ==
    {<<"h", "e", "l", "l", "o">>, <<"O", "k", "a", "y", ".">>, <<"v", "2">>,
     <<"u", "s", "e", "r", "_", "i", "d">>}

\* a keyword in capitals, a number with a unit, a URL, an address, and a
\* fraction after a word
MarkedWords ==
    {<<"O", "K">>, <<"2", "5", "0", "m", "s">>,
     <<"h", "t", "t", "p", ":", "/", "/", "a", ".", "i", "o", "/", "x">>,
     <<"1", "0", ".", "0", ".", "0", ".", "7">>, <<"x", "1", ".", "5">>}

HighlightMessages ==
    UNION {[1 .. n -> PlainWords \cup MarkedWords] : n \in 0 .. MaxWords}

InitHighlight ==
    /\ InitFilter(PipelineFilter("color", LevelInfo))
    /\ IdleConc /\ IdleMulti /\ IdleColor /\ IdleMw
    /\ chain = NoChain /\ boot = NoBoot /\ gated = {} /\ render = NoRender
    /\ \E noColor \in BOOLEAN :
          call = [fn |-> "none", noColor |-> noColor, input |-> <<>>, output |-> <<>>]

NextHighlight ==
    \E words \in HighlightMessages, enableHighlight \in BOOLEAN :
        CallColorize(words, enableHighlight)

SpecHighlight == InitHighlight /\ [][NextHighlight]_vars

\* C30: colorize returns the message as it is when highlighting is
\* disabled, and when it is enabled and the message has no keyword of the
\* dictionary, no number, no URL and no IPv4 address.
C30_PlainUnchanged ==
    call.fn = "colorize" =>
        /\ ~call.input.enableHighlight => call.output = call.input.msg
        /\ (\A k \in DOMAIN call.input.words : call.input.words[k] \in PlainWords)
              => call.output = call.input.msg

\* highlighting is enabled, the colours are on, and the message
\* "Okay. user_id" comes back as it went in
C30_Witness ==
    /\ call.fn = "colorize"
    /\ call.input.enableHighlight /\ ~call.noColor
    /\ call.input.words = <<<<"O", "k", "a", "y", ".">>, <<"u", "s", "e", "r", "_", "i", "d">>>>
    /\ call.output = call.input.msg
    /\ Len(call.output) = 13

----------------------------------------------------------------------------
(* Derived filters and their lock. *)

\* some goroutine is inside the section through handler i and will release
\* the lock of that handler value
HeldBy(i) == \E u \in Threads : thr[u].h = i /\ thr[u].pc \in InSection

\* C31: a handler obtained by WithAttrs/WithGroup never starts with its
\* errorMutex already held, also when it is derived while a Handle call is
\* inside the section of the original: a goroutine waiting at Lock always
\* waits for a lock that some goroutine holds and will release, so every
\* Handle call terminates.
C31_DerivedNeverBlocks ==
    \A t \in Threads :
        (thr[t].pc = "lock" /\ filters[thr[t].h].errorMutex = "locked")
            => HeldBy(thr[t].h)

----------------------------------------------------------------------------
(* SpecGate: the filter of createLogger, the clock, and records whose      *)
(* level and attributes vary from one emission of a message to the next,   *)
(* so that one message is rejected by rule 1 or 5 at one time and reaches  *)
(* the duplicate test at another.                                          *)

GateMsgs ==
    {<<"connection reset by peer">>,
     <<"context deadline exceeded", "chromedp">>,
     <<"request", "completed">>}

GateAttrs == {<<>>, <<[key |-> "path", val |-> "/health"]>>}

GateRecords == [level : {LevelDebug, LevelError}, msg : GateMsgs, attrs : GateAttrs]

\* handler.Handle(ctx, r) on the filter, remembering the messages of the
\* calls that returned before the duplicate test
HandleGated(r, writeFails) ==
    /\ last = NoCall
    /\ filters[1].errorMutex = "unlocked"
    /\ LET h   == filters[1]
           res == HandleResult(h, r, clock, trackers[h.errorTracker], writeFails)
       IN /\ trackers' = [trackers EXCEPT ![h.errorTracker] = res.tracker]
          /\ last' = LastAfter(1, r, "direct", res)
          /\ accepted' = AcceptedAfter(1, r, res)
          /\ gated' = IF res.outcome \in EarlyOutcomes THEN gated \cup {r.msg} ELSE gated
    /\ UNCHANGED <<clock, filters>>
    /\ UNCHANGED concVars /\ UNCHANGED multiVars
    /\ UNCHANGED colorVars /\ UNCHANGED <<mw, chain, boot, call, render>>

InitGate ==
    /\ InitFilter(PipelineFilter("color", LevelInfo))
    /\ IdleConc /\ IdleMulti /\ IdleOther

NextGate ==
    \/ \E r \in GateRecords : HandleGated(r, FALSE)
    \/ Tick(1)
    \/ Return

SpecGate == InitGate /\ [][NextGate]_vars

\* C32: a Handle call changes the errorTracker map only if its record passed
\* rules 1 to 5 and its message is a context error; an emission rejected by
\* an earlier rule creates and refreshes no entry, so a later emission of the
\* same message that reaches the duplicate test is rejected exactly if an
\* accepted emission lies less than the window back, and is accepted as a
\* first occurrence if there is none.
C32_MapChangesOnlyPastRules ==
    /\ [][trackers' # trackers => (PassedRules /\ IsContextError(last.msg))']_vars
    /\ [](Called /\ last.outcome \in EarlyOutcomes
            => Entry(trackers[filters[last.h].errorTracker], last.msg) = last.prev)
    /\ []((PassedRules /\ IsContextError(last.msg) /\ last.msg \in gated)
            => /\ last.outcome = "duplicate"
                    <=> (last.prevAcc >= 0 /\ last.at - last.prevAcc < ErrorWindow)
               /\ last.prevAcc = -1 => last.outcome = "forwarded")

\* a context error rejected by an earlier rule, emitted again and accepted as
\* a first occurrence
C32_Witness ==
    /\ PassedRules /\ IsContextError(last.msg)
    /\ last.msg \in gated /\ last.prevAcc = -1
    /\ last.outcome = "forwarded"
    /\ Entry(trackers[filters[last.h].errorTracker], last.msg) = last.at

----------------------------------------------------------------------------
(* SpecKey: emissions of context errors that differ only in letter case or *)
(* in the text around the error phrase.                                    *)

KeyMsgs ==
    {<<"connection reset by peer">>,
     <<"Connection Reset By Peer">>,
     <<"read:", "connection reset by peer">>}

KeyRecords == [level : {LevelError}, msg : KeyMsgs, attrs : {<<>>}]

InitKey ==
    /\ InitFilter(PipelineFilter("color", LevelInfo))
    /\ IdleConc /\ IdleMulti /\ IdleOther

NextKey ==
    \/ \E r \in KeyRecords : Handle(1, r, FALSE)
    \/ Tick(1)
    \/ Return

SpecKey == InitKey /\ [][NextKey]_vars

\* message m was accepted less than the window before the last call
AcceptedInWindow(m) ==
    /\ m \in DOMAIN accepted
    /\ accepted[m].at <= last.at
    /\ last.at - accepted[m].at < ErrorWindow

\* C33: the map is keyed by the message as emitted: a context error is
\* rejected as a duplicate only if that very message was accepted less than
\* the window before, and the acceptance of a message that differs from it,
\* be it only in letter case or in the text around the phrase, never causes
\* its rejection.
C33_VerbatimKey ==
    /\ (Called /\ last.outcome = "duplicate")
          => (last.prevAcc >= 0 /\ last.at - last.prevAcc < ErrorWindow)
    /\ (PassedRules /\ IsContextError(last.msg)
            /\ ~(last.prevAcc >= 0 /\ last.at - last.prevAcc < ErrorWindow))
          => last.outcome = "forwarded"

\* accepted although the same phrase in capitals and the same phrase with a
\* prefix were both accepted inside the window
C33_Witness ==
    /\ Called /\ last.outcome = "forwarded" /\ last.prevAcc = -1
    /\ last.msg = <<"connection reset by peer">>
    /\ AcceptedInWindow(<<"Connection Reset By Peer">>)
    /\ AcceptedInWindow(<<"read:", "connection reset by peer">>)
    /\ accepted[<<"Connection Reset By Peer">>].at < last.at

----------------------------------------------------------------------------
(* The rendering of the ColorHandler.  A string is a text: a sequence of   *)
(* lines, each a sequence of tokens; the token "\\n" is the two characters *)
(* backslash and n.  An attribute value is a string or a group.  The       *)
(* output is the sequence of lines Handle writes, each with its            *)
(* indentation level (four spaces per level), key, value and colour.       *)

StringValue(text) == [kind |-> "string", text |-> text, group |-> <<>>]
GroupValue(attrs) == [kind |-> "group", text |-> <<>>, group |-> attrs]
Attr(key, value)  == [key |-> key, value |-> value]
Word(tok)         == <<<<tok>>>>

\* concatenation of two strings
Cat(s, t) == SubSeq(s, 1, Len(s) - 1) \o <<s[Len(s)] \o t[1]>> \o Tail(t)

\* slog.Value.String(): the string itself, or for a group the list of its
\* attributes as fmt prints it, [k1=v1 k2=v2]
RECURSIVE ValueString(_)
RECURSIVE AttrsString(_, _)
AttrsString(attrs, k) ==
    IF k > Len(attrs) THEN Word("]")
    ELSE Cat(IF k > 1 THEN Word(" ") ELSE <<<<>>>>,
             Cat(Word(attrs[k].key),
                 Cat(Word("="), Cat(ValueString(attrs[k].value), AttrsString(attrs, k + 1)))))

ValueString(v) ==
    IF v.kind = "group" THEN Cat(Word("["), AttrsString(v.group, 1)) ELSE v.text

\* strings.Split(line, "\n") after the escaped line breaks were replaced
RECURSIVE SplitEscaped(_, _, _)
SplitEscaped(line, k, cur) ==
    IF k > Len(line) THEN <<cur>>
    ELSE IF line[k] = "\\n" THEN <<cur>> \o SplitEscaped(line, k + 1, <<>>)
    ELSE SplitEscaped(line, k + 1, Append(cur, line[k]))

\* splitLines: at line breaks and at escaped line breaks
RECURSIVE splitLines(_)
splitLines(s) ==
    IF s = <<>> THEN <<>> ELSE SplitEscaped(s[1], 1, <<>>) \o splitLines(Tail(s))

\* strconv.Atoi of a status value; -1 stands for the error result
Atoi(s) ==
    CASE s = Word("200") -> 200
      [] s = Word("404") -> 404
      [] s = Word("503") -> 503
      [] s = Word("100") -> 100
      [] OTHER -> -1

Row(indent, key, val, paint) == [indent |-> indent, key |-> key, val |-> val, paint |-> paint]

\* the switch on a.Key of handleAttr: the colour of the value, "" if the key
\* is not a designated one
KeyPaint(key, valStr) ==
    CASE key = "method" -> "hiblue bold"
      [] key \in {"status", "status_code"} ->
            IF Atoi(valStr) >= 500 THEN "red bold"
            ELSE IF Atoi(valStr) >= 400 THEN "yellow bold"
            ELSE IF Atoi(valStr) >= 200 THEN "green bold"
            ELSE "white"
      [] key \in {"duration", "latency"} -> "magenta"
      [] key \in {"url", "path"} -> "cyan underline"
      [] key \in {"ip", "client_ip"} -> "yellow"
      [] key \in {"cache", "cache_status"} ->
            IF valStr = Word("HIT") THEN "green"
            ELSE IF valStr = Word("MISS") THEN "yellow" ELSE "magenta"
      [] key \in {"user_id", "session_id"} -> "cyan bold"
      [] OTHER -> ""

\* handleAttr: the lines written for attribute a at indentation level indent
RECURSIVE handleAttr(_, _, _)
RECURSIVE handleGroup(_, _, _, _)
handleGroup(h, attrs, k, indent) ==
    IF k > Len(attrs) THEN <<>>
    ELSE handleAttr(h, attrs[k], indent) \o handleGroup(h, attrs, k + 1, indent)

handleAttr(h, a, indent) ==
    LET valStr == ValueString(a.value) IN
    IF a.key \in {"error", "stack", "trace"}
    THEN <<Row(indent, a.key, <<>>, "hired")>>
            \o [k \in DOMAIN SelectSeq(splitLines(valStr), LAMBDA line : line # <<>>) |->
                  Row(indent + 1, "",
                      <<SelectSeq(splitLines(valStr), LAMBDA line : line # <<>>)[k]>>,
                      "hired")]
    ELSE IF KeyPaint(a.key, valStr) # ""
    THEN <<Row(indent, a.key, valStr, KeyPaint(a.key, valStr))>>
    ELSE IF a.value.kind = "group"
    THEN <<Row(indent, a.key, <<>>, "")>> \o handleGroup(h, a.value.group, 1, indent + 1)
    ELSE <<Row(indent, a.key, valStr,
               IF h.enableHighlight THEN "colorize" ELSE "plain")>>

\* ColorHandler.Handle: the blank line after a pause, the header with level,
\* time and message, then the attributes at level 1
ColorRender(h, r, gap) ==
    (IF ~h.compactMode /\ gap THEN <<Row(0, "", <<>>, "blank")>> ELSE <<>>)
    \o <<Row(0, "", <<>>, IF h.compactMode THEN "level, short time" ELSE "level, long time"),
          Row(0, "", <<r.msg>>, IF h.enableHighlight THEN "colorize" ELSE "plain")>>
    \o handleGroup(h, r.attrs, 1, 1)

\* a bug to compare with: a new handler value
Fresh_ColorWithAttrs(p, n) == n + 1

\* ColorHandler.WithAttrs: return h
ColorWithAttrs(p, n) == p

\* ColorHandler.WithGroup: return h
ColorWithGroup(p, n) == p

RenderFrame ==
    /\ UNCHANGED filterVars /\ UNCHANGED concVars /\ UNCHANGED multiVars
    /\ UNCHANGED colorVars /\ UNCHANGED <<mw, chain, boot, call, gated>>

\* the handler the scoped logger gets, allocated if it is a new one
Scoped(l, q, name) ==
    [render EXCEPT
        !.heap = IF q > Len(@) THEN Append(@, @[render.loggers[l].h]) ELSE @,
        !.loggers = Append(@, [h |-> q, bound |-> render.loggers[l].bound \cup {name}]),
        !.op = "with", !.before = render.heap[render.loggers[l].h], !.via = l,
        !.out = <<>>]

\* logger.With(attr): a logger over handler.WithAttrs(attrs)
LoggerWith(l, key) ==
    /\ l \in DOMAIN render.loggers
    /\ Len(render.loggers) < 1 + MaxDerived
    /\ render' = Scoped(l, ColorWithAttrs(render.loggers[l].h, Len(render.heap)), key)
    /\ RenderFrame

\* logger.WithGroup(name): a logger over handler.WithGroup(name)
LoggerWithGroup(l, name) ==
    /\ l \in DOMAIN render.loggers
    /\ Len(render.loggers) < 1 + MaxDerived
    /\ render' = Scoped(l, ColorWithGroup(render.loggers[l].h, Len(render.heap)), name)
    /\ RenderFrame

\* a record emitted through logger l: Handle on the handler l holds
RenderHandle(l, r, gap) ==
    /\ l \in DOMAIN render.loggers
    /\ render' = [render EXCEPT !.op = "handle", !.via = l, !.rec = r, !.gap = gap,
                                 !.out = ColorRender(render.heap[render.loggers[l].h], r, gap)]
    /\ RenderFrame

----------------------------------------------------------------------------
(* SpecRender: a ColorHandler as NewColorHandlerWithOptions makes it,      *)
(* loggers scoped on it with With and WithGroup, and records with scalar,  *)
(* designated, grouped and nested attributes emitted through them.         *)

TwoLines == <<<<"goroutine 1">>, <<"main.go:10">>>>

RenderAttrs ==
    {<<>>,
     <<Attr("path", StringValue(Word("/api"))), Attr("status", StringValue(Word("503")))>>,
     <<Attr("note", StringValue(<<<<"cache", "\\n", "cold">>>>))>>,
     <<Attr("user", GroupValue(<<Attr("id", StringValue(Word("7"))),
                                 Attr("name", StringValue(Word("ann")))>>))>>,
     <<Attr("req", GroupValue(<<Attr("method", StringValue(Word("GET"))),
                                Attr("peer", GroupValue(<<Attr("zone",
                                                     StringValue(Word("eu")))>>))>>))>>,
     <<Attr("error", StringValue(Word("boom")))>>,
     <<Attr("error", GroupValue(<<Attr("message", StringValue(Word("boom"))),
                                  Attr("stack", StringValue(TwoLines))>>))>>}

RenderRecords ==
    [level : {LevelInfo, LevelError}, msg : {<<"request", "completed">>}, attrs : RenderAttrs]

InitRender ==
    /\ InitFilter(PipelineFilter("color", LevelInfo))
    /\ IdleConc /\ IdleMulti /\ IdleColor /\ IdleMw
    /\ chain = NoChain /\ boot = NoBoot /\ call = NoCall_utils /\ gated = {}
    /\ \E compact \in BOOLEAN, enabled \in BOOLEAN :
          render = [NoRender EXCEPT !.heap = <<[compactMode |-> compact,
                                                enableHighlight |-> enabled]>>]

NextRender ==
    \/ \E l \in 1 .. (1 + MaxDerived) : LoggerWith(l, "svc")
    \/ \E l \in 1 .. (1 + MaxDerived) : LoggerWithGroup(l, "db")
    \/ \E l \in 1 .. (1 + MaxDerived), r \in RenderRecords, gap \in BOOLEAN :
          RenderHandle(l, r, gap)

SpecRender == InitRender /\ [][NextRender]_vars

\* C34: WithAttrs and WithGroup of a ColorHandler return the handler itself
\* and leave its state as it was, so a record emitted through a scoped logger
\* is written exactly as through the original, and no line of the output
\* carries a key or group name bound on the scoped logger.
C34_ScopedIsSameHandler ==
    /\ Len(render.heap) = 1
    /\ \A l \in DOMAIN render.loggers : render.loggers[l].h = 1
    /\ render.op = "with" => render.heap[1] = render.before
    /\ render.op = "handle" =>
          /\ render.out = ColorRender(render.heap[1], render.rec, render.gap)
          /\ \A k \in DOMAIN render.out :
                render.out[k].key \notin render.loggers[render.via].bound

\* a record with attributes emitted through a scoped logger
C34_Witness ==
    /\ render.op = "handle" /\ render.via > 1
    /\ render.loggers[render.via].bound # {}
    /\ render.rec.attrs # <<>>
    /\ Len(render.out) > 2

\* the group-valued attributes among attrs and below, each with the level at
\* which handleAttr is to write its key
RECURSIVE GroupsIn(_, _)
GroupsIn(attrs, level) ==
    UNION {IF attrs[k].value.kind = "group"
           THEN {[level |-> level, attr |-> attrs[k]]}
                    \cup GroupsIn(attrs[k].value.group, level + 1)
           ELSE {} : k \in DOMAIN attrs}

\* C37: for every attribute whose value is a group, at any depth and whatever
\* its key, the output has the key of the group at the level of the group and
\* a line for each member, under the member's key, one level deeper.
C37_GroupsIndented ==
    render.op = "handle" =>
        \A g \in GroupsIn(render.rec.attrs, 1) :
            /\ \E j \in DOMAIN render.out :
                  render.out[j].key = g.attr.key /\ render.out[j].indent = g.level
            /\ \A k \in DOMAIN g.attr.value.group :
                  \E j \in DOMAIN render.out :
                     /\ render.out[j].key = g.attr.value.group[k].key
                     /\ render.out[j].indent = g.level + 1

----------------------------------------------------------------------------
(* SpecGinWriter: GinLogWriter, the writer InitWithConfig installs as      *)
(* gin.DefaultWriter and gin.DefaultErrorWriter.  A line is a sequence of  *)
(* tokens: the tags of gin, a time stamp, blanks, line ends and words.     *)

MaxLine == 3    \* a line written by gin has up to MaxLine tokens

\* strings.TrimRight(str, cutset) on tokens
RECURSIVE TrimRightIn(_, _)
TrimRightIn(str, cutset) ==
    IF Len(str) > 0 /\ str[Len(str)] \in cutset
    THEN TrimRightIn(SubSeq(str, 1, Len(str) - 1), cutset) ELSE str

\* strings.TrimLeft(str, cutset) on tokens
RECURSIVE TrimLeftIn(_, _)
TrimLeftIn(str, cutset) ==
    IF Len(str) > 0 /\ Head(str) \in cutset THEN TrimLeftIn(Tail(str), cutset) ELSE str

\* strings.ReplaceAll(str, tok, "")
Without(str, tok) == SelectSeq(str, LAMBDA x : x # tok)

\* `^\[GIN-debug\]|\[GIN\]` replaced by "": the debug tag at the start of
\* the text and the tag [GIN] anywhere
StripGinTags(msg) ==
    Without(IF Len(msg) > 0 /\ msg[1] = "[GIN-debug]" THEN Tail(msg) ELSE msg, "[GIN]")

\* GinLogWriter.Write: the count and the error it returns, and the records
\* it hands to slog.Log
GinWrite(ignoreDebug, p) ==
    LET line    == TrimRightIn(p, {"\n"})
        level   == IF Contains(line, "[WARNING]") THEN LevelWarn
                   ELSE IF Contains(line, "[ERROR]") THEN LevelError
                   ELSE LevelInfo
        tagless == IF Contains(line, "[WARNING]") THEN Without(line, "[WARNING]")
                   ELSE IF Contains(line, "[ERROR]") THEN Without(line, "[ERROR]")
                   ELSE line
        msg     == TrimLeftIn(TrimRightIn(
                       Without(StripGinTags(tagless), "2024/01/02 - 03:04:05"),
                       {" ", "\n"}), {" ", "\n"})
    IN  IF ignoreDebug /\ Contains(msg, "[GIN-debug]")
        THEN [n |-> Len(p), err |-> FALSE, logged |-> <<>>]
        ELSE [n |-> Len(p), err |-> FALSE,
              logged |-> IF msg # <<>>
                         THEN <<[level |-> level, msg |-> msg,
                                 attrs |-> <<[key |-> "source", val |-> "gin"]>>]>>
                         ELSE <<>>]

\* gin writes the line p to the writer
CallGinWrite(p) ==
    /\ call.fn = "none"
    /\ call' = [call EXCEPT !.fn = "Write", !.input = p,
                            !.output = GinWrite(call.ignoreDebug, p)]
    /\ UtilsFrame

GinTokens ==
    {"[GIN-debug]", "[GIN]", "[WARNING]", "[ERROR]", "2024/01/02 - 03:04:05",
     " ", "\n", "Listening"}

GinLines == UNION {[1 .. n -> GinTokens] : n \in 0 .. MaxLine}

InitGinWriter ==
    /\ InitFilter(PipelineFilter("color", LevelInfo))
    /\ IdleConc /\ IdleMulti /\ IdleColor /\ IdleMw
    /\ chain = NoChain /\ boot = NoBoot /\ gated = {} /\ render = NoRender
    /\ \E ignoreDebug \in BOOLEAN :
          call = [fn |-> "none", ignoreDebug |-> ignoreDebug, input |-> <<>>,
                  output |-> <<>>]

NextGinWriter == \E p \in GinLines : CallGinWrite(p)

SpecGinWriter == InitGinWriter /\ [][NextGinWriter]_vars

\* C38: a GinLogWriter with ignoreDebug set hands no record to slog.Log for
\* a line that carries the tag [GIN-debug], and for every line it returns
\* the length of the line and no error.
C38_DebugLinesDropped ==
    call.fn = "Write" =>
        /\ (call.ignoreDebug /\ Contains(call.input, "[GIN-debug]"))
              => call.output.logged = <<>>
        /\ call.output.n = Len(call.input)
        /\ ~call.output.err

----------------------------------------------------------------------------
(* SpecPipeline: the logger createLogger assembles with console and file   *)
(* enabled and smart filtering on: a MultiHandler over the filter around   *)
(* the console handler and the file handler, set as slog's default.        *)

\* slog.Default().Error("Handler error", "error", err) in the pipeline
PipelineErrorRecord ==
    [level |-> LevelError, msg |-> <<"Handler error">>,
     attrs |-> <<[key |-> "error", val |-> "write failed"]>>]

\* nothing reported: no further call, the map as it is
Quiet(tr) == [tracker |-> tr, calls |-> <<>>, crashed |-> FALSE]

\* handlers[0] of the pipeline: Enabled and Handle of the filter around the
\* console handler
ConsoleCall(r, tr) ==
    IF Enabled(filters[1], r.level)
    THEN HandleResult(filters[1], r, clock, tr, 1 \in broken)
    ELSE [outcome |-> "disabled", tracker |-> tr, err |-> FALSE]

\* handlers[1] of the pipeline: Enabled and Handle of the file handler
FileCall(r) ==
    [on  |-> WrappedEnabled(members[2], r.level),
     err |-> WrappedEnabled(members[2], r.level)
               /\ WrappedHandleErr(members[2], 2 \in broken)]

\* MultiHandler.Handle on the pipeline, frame `depth` of the goroutine: the
\* map the filter leaves behind, the Handle calls made on the two members in
\* order, and whether the stack limit was hit.  c is the console member's
\* call, n1 the report of its error, n2 the report of the file member's error.
RECURSIVE PipelineHandle(_, _, _)
RECURSIVE PipelineReport(_, _)

\* slog.Default().Error("Handler error", ...): the default logger is this
\* pipeline, so Handle is entered again, one frame deeper
PipelineReport(tr, depth) ==
    IF depth = MaxDepth THEN [tracker |-> tr, calls |-> <<>>, crashed |-> TRUE]
    ELSE IF Enabled(filters[1], LevelError) \/ WrappedEnabled(members[2], LevelError)
         THEN PipelineHandle(PipelineErrorRecord, tr, depth + 1)
         ELSE Quiet(tr)

PipelineHandle(r, tr, depth) ==
    LET Only(S)  == CHOOSE x \in S : TRUE
        Made(c)  == IF c.outcome = "disabled" THEN <<>>
                    ELSE <<[member |-> 1, rec |-> r, outcome |-> c.outcome]>>
        Given(f) == IF f.on THEN <<[member |-> 2, rec |-> r, outcome |-> "forwarded"]>>
                    ELSE <<>>
    IN  Only({Only({
            IF n1.crashed
            THEN [tracker |-> n1.tracker, calls |-> Made(c) \o n1.calls,
                  outcome |-> c.outcome, err |-> c.err, crashed |-> TRUE]
            ELSE Only({[tracker |-> n2.tracker,
                        calls   |-> Made(c) \o n1.calls \o Given(FileCall(r)) \o n2.calls,
                        outcome |-> c.outcome, err |-> c.err, crashed |-> n2.crashed] :
                       n2 \in {IF FileCall(r).err THEN PipelineReport(n1.tracker, depth)
                               ELSE Quiet(n1.tracker)}}) :
            n1 \in {IF c.err THEN PipelineReport(c.tracker, depth)
                    ELSE Quiet(c.tracker)}}) :
          c \in {ConsoleCall(r, tr)}})

\* a Logger method on the pipeline: MultiHandler.Enabled, then Handle
PipelineLog(r) ==
    /\ ~crashed
    /\ last = NoCall
    /\ LET on == Enabled(filters[1], r.level) \/ WrappedEnabled(members[2], r.level) IN
       \E run \in {IF on THEN PipelineHandle(r, trackers[1], 1)
                   ELSE [tracker |-> trackers[1], calls |-> <<>>, outcome |-> "disabled",
                         err |-> FALSE, crashed |-> FALSE]} :
          /\ trackers' = [trackers EXCEPT ![1] = run.tracker]
          /\ last' = LastAfter(1, r, "logger", run)
          /\ accepted' = AcceptedAfter(1, r, run)
          /\ delivered' = [rec |-> r, to |-> {run.calls[k].member : k \in DOMAIN run.calls},
                           failed |-> broken, calls |-> run.calls]
          /\ ret' = IF run.crashed THEN "running" ELSE IF on THEN "nil" ELSE "dropped"
          /\ crashed' = run.crashed
    /\ UNCHANGED <<clock, filters, members, defaultIsMulti, broken, stack, scoped>>
    /\ UNCHANGED concVars /\ UNCHANGED otherVars

\* the writer of member i starts to fail, between two calls
PipelineBreak(i) == last = NoCall /\ Break(i)

PipelineMsgs ==
    {<<"request", "completed">>,
     <<"connection reset by peer">>,
     <<"could not unmarshal event", "CookiePartitionKey">>,
     <<" ">>}

PipelineLevels == {LevelDebug, LevelInfo, LevelError}

PipelineRecords ==
    [level : PipelineLevels, msg : PipelineMsgs, attrs : {<<>>}]
    \cup [level : PipelineLevels, msg : {<<"GET">>},
          attrs : {<<[key |-> "path", val |-> "/health"]>>}]

\* createLogger with Console.Enabled, File.Enabled and Features.SmartFilter,
\* then slog.SetDefault(logger)
InitPipeline ==
    /\ \E kind \in MemberKinds, level \in MemberLevels :
          /\ InitFilter(PipelineFilter(kind, level))
          /\ members = <<Wrapped(kind, level), Wrapped("text", level)>>
    /\ IdleConc
    /\ defaultIsMulti = TRUE
    /\ broken = {}
    /\ stack = <<>>
    /\ delivered = NoDelivery
    /\ ret = "none"
    /\ crashed = FALSE
    /\ scoped = <<>>
    /\ IdleOther

NextPipeline ==
    \/ \E r \in PipelineRecords : PipelineLog(r)
    \/ \E i \in 1 .. 2 : PipelineBreak(i)
    \/ Tick(ErrorWindow)
    \/ Return

SpecPipeline == InitPipeline /\ [][NextPipeline]_vars

\* the Handle calls the file handler got with the record of the last call
FileDeliveries ==
    SelectSeq(delivered.calls, LAMBDA c : c.member = 2 /\ c.rec = delivered.rec)

\* C35: in the pipeline with console, file and smart filtering, every record
\* at or above the configured level is handed to the file handler exactly
\* once, also when the console filter rejects it and whatever the duplicate
\* map holds; the filter stands before the console handler only.
C35_FileGetsEveryRecord ==
    (ret # "none" /\ delivered.rec.level >= members[2].minLevel)
        => Len(FileDeliveries) = 1

====
